---- MODULE Spec2Model ----
(***************************************************************************)
(* A model of the gateway core of claude-code-mux:                         *)
(*   - the OAuth token lifecycle (src/src/auth/oauth.rs) as it is driven   *)
(*     by concurrent requests, including the Gemini Code Assist path of    *)
(*     src/src/providers/gemini.rs;                                        *)
(*   - the provider registry (src/src/providers/registry.rs).              *)
(*   - the pure translations and decisions of these files and of           *)
(*     src/src/server/openai_compat.rs, applied to bounded inputs.         *)
(* Spec    : concurrent requests over the shared token store.              *)
(* SpecReg : registry construction from a configuration list and lookups.  *)
(* SpecFn  : one function applied to one input drawn from a bounded set.   *)
(* SpecLogin : one exchange_code call against the token store.            *)
(***************************************************************************)
EXTENDS Integers, Sequences, FiniteSets, TLC

(***************************************************************************)
(* Option<T>: None is the empty tuple, Some(x) the one-element tuple.      *)
(***************************************************************************)
None == <<>>
Some(x) == <<x>>
IsSome(o) == o # <<>>
Unwrap(o) == o[1]

(***************************************************************************)
(* Strings are sequences of characters; a fixed piece of text that no      *)
(* search looks into may stand as one element.                             *)
(***************************************************************************)
\* str::contains
Contains(s, sub) ==
    \E i \in 0..(Len(s) - Len(sub)) : SubSeq(s, i + 1, i + Len(sub)) = sub

\* str::starts_with
StartsWith(s, prefix) ==
    Len(s) >= Len(prefix) /\ SubSeq(s, 1, Len(prefix)) = prefix

\* str::find(char): the first position of ch in s, 0 when there is none
Find(s, ch) ==
    IF \E i \in 1..Len(s) : s[i] = ch
    THEN CHOOSE i \in 1..Len(s) : s[i] = ch /\ \A j \in 1..(i - 1) : s[j] # ch
    ELSE 0

(***************************************************************************)
(* Characters and bytes.                                                   *)
(***************************************************************************)
\* the printable ASCII characters, from code 32 (space) to code 126; the
\* grave accent (code 96) is written out by name
Printable == <<
    " ", "!", "\"", "#", "$", "%", "&", "'", "(", ")", "*", "+", ",", "-", ".", "/",
    "0", "1", "2", "3", "4", "5", "6", "7", "8", "9", ":", ";", "<", "=", ">", "?",
    "@", "A", "B", "C", "D", "E", "F", "G", "H", "I", "J", "K", "L", "M", "N", "O",
    "P", "Q", "R", "S", "T", "U", "V", "W", "X", "Y", "Z", "[", "\\", "]", "^", "_",
    "grave", "a", "b", "c", "d", "e", "f", "g", "h", "i", "j", "k", "l", "m", "n", "o",
    "p", "q", "r", "s", "t", "u", "v", "w", "x", "y", "z", "{", "|", "}", "~" >>

\* the code of a printable ASCII character
AsciiCode(c) == 31 + CHOOSE i \in 1..Len(Printable) : Printable[i] = c

\* str::as_bytes of an ASCII string
AsBytes(s) == [i \in 1..Len(s) |-> AsciiCode(s[i])]

(***************************************************************************)
(* SHA-256 (FIPS 180-4) over byte sequences.  A 32-bit word is the pair    *)
(* <<high 16 bits, low 16 bits>>.                                          *)
(***************************************************************************)
Pow2(n) == IF n = 0 THEN 1 ELSE 2 ^ n

\* wrapping_add
WAdd(a, b) ==
    LET lo == a[2] + b[2]
        hi == a[1] + b[1] + (lo \div 65536)
    IN  <<hi % 65536, lo % 65536>>

\* Sha256::new / update / finalize: the 32 bytes of the digest
Sha256(bytes) ==
    LET RECURSIVE Xor16(_, _, _)
        Xor16(a, b, n) ==
            IF n = 0 THEN 0
            ELSE (((a % 2) + (b % 2)) % 2) + 2 * Xor16(a \div 2, b \div 2, n - 1)

        RECURSIVE And16(_, _, _)
        And16(a, b, n) ==
            IF n = 0 THEN 0
            ELSE ((a % 2) * (b % 2)) + 2 * And16(a \div 2, b \div 2, n - 1)

        WXor(a, b) == <<Xor16(a[1], b[1], 16), Xor16(a[2], b[2], 16)>>
        WAnd(a, b) == <<And16(a[1], b[1], 16), And16(a[2], b[2], 16)>>
        WNot(a) == <<65535 - a[1], 65535 - a[2]>>

        \* rotate_right
        Rotr(x, n) ==
            LET y == IF n >= 16 THEN <<x[2], x[1]>> ELSE x
                m == n % 16
                p == Pow2(m)
                q == Pow2(16 - m)
            IN  IF m = 0 THEN y
                ELSE <<(y[1] \div p) + (y[2] % p) * q, (y[2] \div p) + (y[1] % p) * q>>

        Shr(x, n) ==
            IF n >= 16 THEN <<0, x[1] \div Pow2(n - 16)>>
            ELSE <<x[1] \div Pow2(n), (x[2] \div Pow2(n)) + (x[1] % Pow2(n)) * Pow2(16 - n)>>

        Sha256K == <<
            <<17034, 12184>>, <<28983, 17553>>, <<46528, 64463>>, <<59829, 56229>>,
            <<14678, 49755>>, <<23025, 4593>>, <<37439, 33444>>, <<43804, 24277>>,
            <<55303, 43672>>, <<4739, 23297>>, <<9265, 34238>>, <<21772, 32195>>,
            <<29374, 23924>>, <<32990, 45566>>, <<39900, 1703>>, <<49563, 61812>>,
            <<58523, 27073>>, <<61374, 18310>>, <<4033, 40390>>, <<9228, 41420>>,
            <<11753, 11375>>, <<19060, 33962>>, <<23728, 43484>>, <<30457, 35034>>,
            <<38974, 20818>>, <<43057, 50797>>, <<45059, 10184>>, <<48985, 32711>>,
            <<50912, 3059>>, <<54695, 37191>>, <<1738, 25425>>, <<5161, 10599>>,
            <<10167, 2693>>, <<11803, 8504>>, <<19756, 28156>>, <<21304, 3347>>,
            <<25866, 29524>>, <<30314, 2747>>, <<33218, 51502>>, <<37490, 11397>>,
            <<41663, 59553>>, <<43034, 26187>>, <<49739, 35696>>, <<51052, 20899>>,
            <<53650, 59417>>, <<54937, 1572>>, <<62478, 13701>>, <<4202, 41072>>,
            <<6564, 49430>>, <<7735, 27656>>, <<10056, 30540>>, <<13488, 48309>>,
            <<14620, 3251>>, <<20184, 43594>>, <<23452, 51791>>, <<26670, 28659>>,
            <<29839, 33518>>, <<30885, 25455>>, <<33992, 30740>>, <<36039, 520>>,
            <<37054, 65530>>, <<42064, 27883>>, <<48889, 41975>>, <<50801, 30962>> >>

        Sha256H0 == <<
            <<27145, 58983>>, <<47975, 44677>>, <<15470, 62322>>, <<42319, 62778>>,
            <<20750, 21119>>, <<39685, 26764>>, <<8067, 55723>>, <<23520, 52505>> >>

        BigSigma0(x) == WXor(WXor(Rotr(x, 2), Rotr(x, 13)), Rotr(x, 22))
        BigSigma1(x) == WXor(WXor(Rotr(x, 6), Rotr(x, 11)), Rotr(x, 25))
        SmallSigma0(x) == WXor(WXor(Rotr(x, 7), Rotr(x, 18)), Shr(x, 3))
        SmallSigma1(x) == WXor(WXor(Rotr(x, 17), Rotr(x, 19)), Shr(x, 10))
        Ch(x, y, z) == WXor(WAnd(x, y), WAnd(WNot(x), z))
        Maj(x, y, z) == WXor(WXor(WAnd(x, y), WAnd(x, z)), WAnd(y, z))

        \* the message followed by 0x80, zeros and its length in bits (big-endian)
        Sha256Pad(msg) ==
            LET n == Len(msg)
                zeros == (119 - (n % 64)) % 64
                bits == 8 * n
            IN  msg \o <<128>> \o [i \in 1..zeros |-> 0]
                      \o <<0, 0, 0, 0, 0, (bits \div 65536) % 256, (bits \div 256) % 256, bits % 256>>

        \* the 16 words of block k (from 0) of the padded message
        BlockWords(padded, k) ==
            [i \in 1..16 |->
                LET o == 64 * k + 4 * (i - 1)
                IN  <<padded[o + 1] * 256 + padded[o + 2], padded[o + 3] * 256 + padded[o + 4]>>]

        RECURSIVE Schedule(_)
        Schedule(w) ==
            IF Len(w) = 64 THEN w
            ELSE LET t == Len(w) + 1
                 IN  Schedule(Append(w, WAdd(WAdd(SmallSigma1(w[t - 2]), w[t - 7]),
                                             WAdd(SmallSigma0(w[t - 15]), w[t - 16]))))

        \* one round of the compression function
        Round(s, k, w) ==
            LET t1 == WAdd(WAdd(WAdd(s[8], BigSigma1(s[5])), Ch(s[5], s[6], s[7])), WAdd(k, w))
                t2 == WAdd(BigSigma0(s[1]), Maj(s[1], s[2], s[3]))
            IN  <<WAdd(t1, t2), s[1], s[2], s[3], WAdd(s[4], t1), s[5], s[6], s[7]>>

        RECURSIVE Rounds(_, _, _)
        \* rounds t..64 applied to the eight working variables s
        Rounds(s, w, t) ==
            IF Len(s) = 8 /\ t <= 64 THEN Rounds(Round(s, Sha256K[t], w[t]), w, t + 1) ELSE s

        RECURSIVE Sha256Blocks(_, _, _)
        Sha256Blocks(padded, k, h) ==
            IF 64 * k >= Len(padded) THEN h
            ELSE LET s == Rounds(h, Schedule(BlockWords(padded, k)), 1)
                 IN  Sha256Blocks(padded, k + 1, [i \in 1..8 |-> WAdd(h[i], s[i])])

        digest == Sha256Blocks(Sha256Pad(bytes), 0, Sha256H0)
    IN  [i \in 1..32 |->
            LET word == digest[(i - 1) \div 4 + 1]
                j == (i - 1) % 4
            IN  IF j = 0 THEN word[1] \div 256
                ELSE IF j = 1 THEN word[1] % 256
                ELSE IF j = 2 THEN word[2] \div 256
                ELSE word[2] % 256]

(***************************************************************************)
(* base64 (the URL-safe alphabet).                                         *)
(***************************************************************************)
UrlSafeAlphabet == <<
    "A", "B", "C", "D", "E", "F", "G", "H", "I", "J", "K", "L", "M", "N", "O", "P",
    "Q", "R", "S", "T", "U", "V", "W", "X", "Y", "Z", "a", "b", "c", "d", "e", "f",
    "g", "h", "i", "j", "k", "l", "m", "n", "o", "p", "q", "r", "s", "t", "u", "v",
    "w", "x", "y", "z", "0", "1", "2", "3", "4", "5", "6", "7", "8", "9", "-", "_" >>

\* URL_SAFE_NO_PAD.encode: one character for each 6-bit group of the bytes,
\* the last group filled with zeros
Base64UrlNoPad(bytes) ==
    LET Sextet(i) ==
            LET bit == 6 * (i - 1)
                j == bit \div 8 + 1
                pair == bytes[j] * 256 + (IF j < Len(bytes) THEN bytes[j + 1] ELSE 0)
            IN  (pair \div Pow2(10 - (bit % 8))) % 64
    IN  [i \in 1..((8 * Len(bytes) + 5) \div 6) |-> UrlSafeAlphabet[Sextet(i) + 1]]

\* the bytes an unpadded URL-safe base64 string stands for
Base64UrlDecode(s) ==
    LET SextetOf(c) == (CHOOSE i \in 1..64 : UrlSafeAlphabet[i] = c) - 1 IN
    [j \in 1..((6 * Len(s)) \div 8) |->
        LET bit == 8 * (j - 1)
            i == bit \div 6 + 1
            pair == SextetOf(s[i]) * 64 + SextetOf(s[i + 1])
        IN  (pair \div Pow2(4 - (bit % 6))) % 256]

(***************************************************************************)
(* Bounds of the token model.                                              *)
(***************************************************************************)
\* how many times the environment may act (clock jumps, deletions)
MaxEnv == 1

\* the concurrent requests
Procs == {"A", "B"}
ProviderIds == {"gemini", "anthropic"}
\* expires_in values the token endpoint may answer with (seconds)
ExpiresIn == {30, 3600}
\* how far the clock may jump in one step (seconds)
TickSteps == {3540}
\* HTTP statuses the generateContent endpoint may answer with
ApiStatuses == {200, 500}

(***************************************************************************)
(* The token store (TokenStore, OAuthToken): get / save / delete.          *)
(***************************************************************************)
SafetyMargin == 60

\* needs_refresh reporting a token that expires in exactly the margin as valid
needs_refresh_strict(token, t) == t + SafetyMargin > token.expires_at

needs_refresh(token, t) == t + SafetyMargin >= token.expires_at

StoreGet(st, provider_id) == st[provider_id]

\* StoreSave writing the token under every provider id
StoreSaveEverywhere(st, token) == [id \in DOMAIN st |-> Some(token)]

StoreSave(st, token) == [st EXCEPT ![token.provider_id] = Some(token)]

StoreDelete(st, provider_id) == [st EXCEPT ![provider_id] = None]

InitTokens(provider_id) ==
    { [provider_id |-> provider_id, access_token |-> 0, refresh_token |-> 0,
       expires_at |-> e, enterprise_url |-> Some("ent"), project_id |-> Some("proj")] :
         e \in ExpiresIn }

\* the token model: the store, its write counts, the clock, the requests
VARIABLES store, writes, now, pc, call, issued, budget
\* the registry model: the configuration list, the registry, the last lookup
VARIABLES configs, registry, lookup

\* the function model: the function applied with its arguments, its result
VARIABLES args, ret

tokVars == <<store, writes, now, pc, call, issued, budget>>
regVars == <<configs, registry, lookup>>
fnVars == <<args, ret>>
vars == <<tokVars, regVars, fnVars>>

NoRegistry == [status |-> "none"]
NoLookup == [op |-> "none"]

\* the registry model at rest, as it stays throughout Spec
RegIdle ==
    /\ configs = <<>>
    /\ registry = NoRegistry
    /\ lookup = NoLookup

NoRet == [tag |-> "none"]

\* the function model at rest, as it stays throughout Spec and SpecReg
FnIdle ==
    /\ args = [fn |-> "none"]
    /\ ret = NoRet

(***************************************************************************)
(* Per-request locals.  op is the entry point of the request; token is the *)
(* value loaded by get_valid_token / get_auth_header; existing_token,      *)
(* response and refreshed belong to refresh_token; bearer and project to   *)
(* send_message.  refreshes and http count the requests this call has sent *)
(* to the token endpoint and to generateContent; saved_ver is the store    *)
(* version this call's save produced (0: it saved nothing).                *)
(***************************************************************************)
NoResult == [tag |-> "none"]

EmptyCall ==
    [op |-> "none", provider_id |-> "none", token |-> None,
     existing_token |-> None, response |-> NoResult, refreshed |-> None,
     rt_error |-> "", bearer |-> None, project |-> None, loaded_at |-> 0,
     result |-> NoResult, refreshes |-> 0, http |-> 0, saved_ver |-> 0,
     steps |-> <<>>, api |-> NoResult]

Init ==
    /\ store \in [ProviderIds -> {None} \cup UNION {{Some(t) : t \in InitTokens(id)} : id \in ProviderIds}]
    /\ \A id \in ProviderIds : IsSome(store[id]) => Unwrap(store[id]).provider_id = id
    /\ writes = [id \in ProviderIds |-> 0]
    /\ now = 0
    /\ pc = [p \in Procs |-> "idle"]
    /\ call = [p \in Procs |-> EmptyCall]
    /\ issued = [id \in ProviderIds |-> 0]
    /\ budget = [env |-> 0]
    /\ RegIdle
    /\ FnIdle

(***************************************************************************)
(* OAuthClient::refresh_token                                              *)
(***************************************************************************)
\* the token built from a 2xx, parseable response
RefreshedToken(provider_id, existing_token, token_response, t) ==
    [provider_id    |-> provider_id,
     access_token   |-> token_response.access_token,
     refresh_token  |-> token_response.refresh_token,
     expires_at     |-> t + token_response.expires_in,
     enterprise_url |-> existing_token.enterprise_url,
     project_id     |-> None]

\* the error refresh_token returns for a response, "" when it is 2xx and parses
RefreshError(token_response) ==
    CASE token_response.tag = "transport" -> "Failed to refresh token"
      [] token_response.tag = "status"    -> "Token refresh failed"
      [] token_response.tag = "body"      -> "Failed to parse token response"
      [] OTHER                            -> ""

\* SaveRefreshed with the save forgotten: Ok is returned, nothing is written
SaveRefreshedSkipped(st, token) == st

\* self.token_store.save(token.clone())? in refresh_token
SaveRefreshed(st, token) == StoreSave(st, token)

(***************************************************************************)
(* What the two callers of refresh_token make of its result.               *)
(***************************************************************************)
\* get_valid_token: `?` propagates the error, Ok gives the new access_token
GvtAfterRefresh(c, refreshed, err) ==
    IF IsSome(refreshed)
    THEN [c EXCEPT !.refreshed = refreshed,
                   !.result = [tag |-> "Ok", access_token |-> Unwrap(refreshed).access_token]]
    ELSE [c EXCEPT !.rt_error = err, !.result = [tag |-> "Err", error |-> err]]

\* GahAfterRefresh falling back on the stale token when the refresh failed
GahAfterRefreshFallback(c, refreshed, err) ==
    IF IsSome(refreshed)
    THEN [c EXCEPT !.refreshed = refreshed,
                   !.bearer = Some(Unwrap(refreshed).access_token),
                   !.steps = Append(@, "get_auth_header")]
    ELSE [c EXCEPT !.rt_error = err,
                   !.bearer = Some(Unwrap(c.token).access_token),
                   !.steps = Append(@, "get_auth_header")]

\* get_auth_header: Err becomes AuthError, Ok gives the bearer header
GahAfterRefresh(c, refreshed, err) ==
    IF IsSome(refreshed)
    THEN [c EXCEPT !.refreshed = refreshed,
                   !.bearer = Some(Unwrap(refreshed).access_token),
                   !.steps = Append(@, "get_auth_header")]
    ELSE [c EXCEPT !.rt_error = err, !.result = [tag |-> "AuthError"]]

AfterRefresh(c, refreshed, err) ==
    IF c.op = "get_valid_token" THEN GvtAfterRefresh(c, refreshed, err)
                                ELSE GahAfterRefresh(c, refreshed, err)

\* PcAfterRefresh going on to the request whatever get_auth_header returned
PcAfterRefreshAlways(c) ==
    IF c.op = "send_message" THEN "sm_project" ELSE "done"

\* where the request continues once refresh_token has returned
PcAfterRefresh(c) ==
    IF c.op = "send_message" /\ c.result = NoResult THEN "sm_project" ELSE "done"

(***************************************************************************)
(* Requests.  Each process serves one request: pc is "idle" before it and  *)
(* "done" after it, when call holds the locals of the finished request.    *)
(***************************************************************************)
\* a caller invokes OAuthClient::get_valid_token(provider_id)
StartGetValidToken(p, provider_id) ==
    /\ pc[p] = "idle"
    /\ call' = [call EXCEPT ![p] = [EmptyCall EXCEPT !.op = "get_valid_token",
                                                     !.provider_id = provider_id]]
    /\ pc' = [pc EXCEPT ![p] = "gvt_load"]
    /\ UNCHANGED <<store, writes, now, issued, budget, regVars, fnVars>>

\* a caller invokes send_message on a Gemini provider whose oauth_provider_id
\* is provider_id and which holds the token store (is_oauth() is true);
\* transform_request is pure and runs first; steps lists the stages of
\* send_message the request has been through
StartSendMessage(p, provider_id) ==
    /\ pc[p] = "idle"
    /\ call' = [call EXCEPT ![p] = [EmptyCall EXCEPT !.op = "send_message",
                                                     !.provider_id = provider_id,
                                                     !.steps = <<"transform_request">>]]
    /\ pc' = [pc EXCEPT ![p] = "gah_load"]
    /\ UNCHANGED <<store, writes, now, issued, budget, regVars, fnVars>>

\* LoadDecision with the refresh gate forgotten: any stored token is handed out
LoadDecisionNoGate(token, t) ==
    IF token = None THEN "missing" ELSE "valid"

\* what get_valid_token / get_auth_header do with the loaded token
LoadDecision(token, t) ==
    IF token = None THEN "missing"
    ELSE IF needs_refresh(Unwrap(token), t) THEN "refresh"
    ELSE "valid"

\* get_valid_token: load the token and decide
GvtLoad(p) ==
    /\ pc[p] = "gvt_load"
    /\ LET c == [call[p] EXCEPT !.token = StoreGet(store, call[p].provider_id),
                                !.loaded_at = now]
           d == LoadDecision(c.token, now)
       IN  CASE d = "missing" ->
                /\ call' = [call EXCEPT ![p] = [c EXCEPT !.result =
                              [tag |-> "Err", error |-> "No token found for provider"]]]
                /\ pc' = [pc EXCEPT ![p] = "done"]
             [] d = "refresh" ->
                /\ call' = [call EXCEPT ![p] = c]
                /\ pc' = [pc EXCEPT ![p] = "rt_load"]
             [] OTHER ->
                /\ call' = [call EXCEPT ![p] = [c EXCEPT !.result =
                              [tag |-> "Ok", access_token |-> Unwrap(c.token).access_token]]]
                /\ pc' = [pc EXCEPT ![p] = "done"]
    /\ UNCHANGED <<store, writes, now, issued, budget, regVars, fnVars>>

\* get_auth_header: load the token and decide
GahLoad(p) ==
    /\ pc[p] = "gah_load"
    /\ LET c == [call[p] EXCEPT !.token = StoreGet(store, call[p].provider_id),
                                !.loaded_at = now]
           d == LoadDecision(c.token, now)
       IN  CASE d = "missing" ->
                /\ call' = [call EXCEPT ![p] = [c EXCEPT !.result = [tag |-> "AuthError"]]]
                /\ pc' = [pc EXCEPT ![p] = "done"]
             [] d = "refresh" ->
                /\ call' = [call EXCEPT ![p] = c]
                /\ pc' = [pc EXCEPT ![p] = "rt_load"]
             [] OTHER ->
                /\ call' = [call EXCEPT ![p] = [c EXCEPT
                              !.bearer = Some(Unwrap(c.token).access_token),
                              !.steps = Append(@, "get_auth_header")]]
                /\ pc' = [pc EXCEPT ![p] = "sm_project"]
    /\ UNCHANGED <<store, writes, now, issued, budget, regVars, fnVars>>

\* refresh_token: load the existing token and post the refresh request
RtLoad(p) ==
    /\ pc[p] = "rt_load"
    /\ LET c == call[p]
           existing_token == StoreGet(store, c.provider_id)
       IN  IF existing_token = None
           THEN LET c2 == AfterRefresh(c, None, "No token found for provider")
                IN  /\ call' = [call EXCEPT ![p] = c2]
                    /\ pc' = [pc EXCEPT ![p] = PcAfterRefresh(c2)]
           ELSE /\ call' = [call EXCEPT ![p] = [c EXCEPT !.existing_token = existing_token,
                                                         !.refreshes = @ + 1]]
                /\ pc' = [pc EXCEPT ![p] = "rt_wait"]
    /\ UNCHANGED <<store, writes, now, issued, budget, regVars, fnVars>>

\* the token endpoint answers the refresh request of p
TokenEndpoint(p) ==
    /\ pc[p] = "rt_wait"
    /\ \/ LET id == call[p].provider_id
              n == issued[id] + 1
          IN  /\ issued' = [issued EXCEPT ![id] = n]
              /\ \E e \in ExpiresIn :
                    call' = [call EXCEPT ![p].response =
                               [tag |-> "ok", access_token |-> n,
                                refresh_token |-> n, expires_in |-> e]]
       \/ /\ \E f \in {"transport", "status", "body"} :
               call' = [call EXCEPT ![p].response = [tag |-> f]]
          /\ UNCHANGED issued
    /\ pc' = [pc EXCEPT ![p] = "rt_resp"]
    /\ UNCHANGED <<store, writes, now, budget, regVars, fnVars>>

\* refresh_token: handle the response, save the refreshed token, return
RtRecv(p) ==
    /\ pc[p] = "rt_resp"
    /\ LET c == call[p]
           err == RefreshError(c.response)
       IN  IF err # ""
           THEN LET c2 == AfterRefresh([c EXCEPT !.response = NoResult], None, err)
                IN  /\ call' = [call EXCEPT ![p] = c2]
                    /\ pc' = [pc EXCEPT ![p] = PcAfterRefresh(c2)]
                    /\ UNCHANGED <<store, writes>>
           ELSE LET token == RefreshedToken(c.provider_id, Unwrap(c.existing_token),
                                            c.response, now)
                    st2 == SaveRefreshed(store, token)
                    \* writes counts the writes that reached the store
                    w2 == IF st2[c.provider_id] = Some(token)
                          THEN [writes EXCEPT ![c.provider_id] = @ + 1]
                          ELSE writes
                    c2 == AfterRefresh([c EXCEPT !.saved_ver = w2[c.provider_id],
                                                 !.response = NoResult],
                                       Some(token), "")
                IN  /\ store' = st2
                    /\ writes' = w2
                    /\ call' = [call EXCEPT ![p] = c2]
                    /\ pc' = [pc EXCEPT ![p] = PcAfterRefresh(c2)]
    /\ UNCHANGED <<now, issued, budget, regVars, fnVars>>

\* send_message: the bearer header is Some; read project_id from the store,
\* wrap the request in the Code Assist envelope and post it
CodeAssistProject(st, provider_id) ==
    LET token == StoreGet(st, provider_id)
    IN  IF token = None THEN None ELSE Unwrap(token).project_id

SmProject(p) ==
    /\ pc[p] = "sm_project"
    /\ call' = [call EXCEPT ![p] = [@ EXCEPT
                   !.project = CodeAssistProject(store, call[p].provider_id),
                   !.http = @ + 1,
                   !.steps = Append(@, "generateContent")]]
    /\ pc' = [pc EXCEPT ![p] = "sm_wait"]
    /\ UNCHANGED <<store, writes, now, issued, budget, regVars, fnVars>>

is_success(status) == status >= 200 /\ status <= 299

ApiError(status, message) ==
    [tag |-> "ApiError", status |-> status, message |-> message]

S_gemini3 == <<"g", "e", "m", "i", "n", "i", "-", "3">>
S_preview == <<"p", "r", "e", "v", "i", "e", "w">>
PreviewHint ==
    <<"' is not available. This may be a preview model that requires special access. Try using gemini-2.5-pro or gemini-2.0-flash-exp instead. Original error: ">>

\* NotFoundMessage giving the preview hint for every model
NotFoundMessageAlwaysHint(model, error_text) ==
    <<"Model '">> \o model \o PreviewHint \o error_text

\* send_message, Code Assist path: the message of a 404
NotFoundMessage(model, error_text) ==
    IF Contains(model, S_gemini3) \/ Contains(model, S_preview)
    THEN <<"Model '">> \o model \o PreviewHint \o error_text
    ELSE <<"Model '">> \o model \o <<"' not found. Original error: ">> \o error_text

\* send_message: what becomes of an upstream response with this status and
\* body, on the Code Assist path (oauth) and on the public / Vertex AI path;
\* body is None when it could not be read
\* (response.text().await.unwrap_or_else(|_| "Unknown error"))
HandleResponse(oauth, model, status, body) ==
    IF is_success(status) THEN [tag |-> "Ok"]
    ELSE LET error_text == IF IsSome(body) THEN Unwrap(body) ELSE <<"Unknown error">> IN
         IF oauth /\ status = 404
         THEN ApiError(status, NotFoundMessage(model, error_text))
         ELSE ApiError(status, error_text)

\* the model of the requests of Spec
RequestModel == <<"g", "e", "m", "i", "n", "i", "-", "2", ".", "5", "-", "p", "r", "o">>

\* send_message: the result for an upstream answer
SendMessageResult(api) ==
    IF api.tag = "transport" THEN [tag |-> "Transport"]
    ELSE HandleResponse(TRUE, RequestModel, api.status, api.body)

\* the Code Assist endpoint answers the generateContent request of p and
\* send_message turns the answer into its result; a 2xx answer is handed to
\* transform_response
SmRecv(p) ==
    /\ pc[p] = "sm_wait"
    /\ \E api \in {[tag |-> "status", status |-> s, body |-> Some(<<"e", "r", "r">>)] : s \in ApiStatuses}
                    \cup {[tag |-> "transport"]} :
         call' = [call EXCEPT ![p] = [@ EXCEPT
                    !.api = api,
                    !.result = SendMessageResult(api),
                    !.steps = IF SendMessageResult(api).tag = "Ok"
                              THEN Append(@, "transform_response") ELSE @]]
    /\ pc' = [pc EXCEPT ![p] = "done"]
    /\ UNCHANGED <<store, writes, now, issued, budget, regVars, fnVars>>

\* time passes
Tick ==
    /\ budget.env < MaxEnv
    /\ \E d \in TickSteps : now' = now + d
    /\ budget' = [budget EXCEPT !.env = @ + 1]
    /\ UNCHANGED <<store, writes, pc, call, issued, regVars, fnVars>>

\* some other part of the gateway deletes a stored token (TokenStore.delete);
\* deleting an absent entry changes nothing and is left out
Delete(provider_id) ==
    /\ budget.env < MaxEnv
    /\ IsSome(store[provider_id])
    /\ store' = StoreDelete(store, provider_id)
    /\ writes' = [writes EXCEPT ![provider_id] = @ + 1]
    /\ budget' = [budget EXCEPT !.env = @ + 1]
    /\ UNCHANGED <<now, pc, call, issued, regVars, fnVars>>

Next ==
    \/ \E p \in Procs, id \in ProviderIds : StartGetValidToken(p, id)
    \/ \E p \in Procs, id \in ProviderIds : StartSendMessage(p, id)
    \/ \E p \in Procs : GvtLoad(p)
    \/ \E p \in Procs : GahLoad(p)
    \/ \E p \in Procs : RtLoad(p)
    \/ \E p \in Procs : TokenEndpoint(p)
    \/ \E p \in Procs : RtRecv(p)
    \/ \E p \in Procs : SmProject(p)
    \/ \E p \in Procs : SmRecv(p)
    \/ Tick
    \/ \E id \in ProviderIds : Delete(id)

Spec == Init /\ [][Next]_vars

(***************************************************************************)
(* The provider registry.                                                  *)
(***************************************************************************)
\* how many entries the configuration list may have
MaxConfigs == 2

\* the provider_type tags from_configs dispatches on
OpenAINewTypes == {"openai"}
AnthropicNewTypes == {"anthropic"}
AnthropicPresetTypes == {"z.ai", "minimax", "zenmux", "kimi-coding"}
OpenAIPresetTypes == {"openrouter", "deepinfra", "novita", "baseten", "together",
                      "fireworks", "groq", "nebius", "cerebras", "moonshot"}
KnownTypes == OpenAINewTypes \cup AnthropicNewTypes \cup AnthropicPresetTypes
              \cup OpenAIPresetTypes \cup {"gemini", "vertex-ai"}

\* the configurations the model draws its lists from: per provider_type, the
\* (auth_type, api_key, oauth_provider, project_id, location) shapes tried
Names == {"a", "b"}
Models == {"m1", "m2", "m3"}
ConfigSpace ==
    LET ModelsOf(name) == IF name = "a" THEN <<"m1">> ELSE <<"m1", "m2">>

        AuthShapes(provider_type) ==
            CASE provider_type = "openai" ->
                   {<<"ApiKey", None>>, <<"ApiKey", Some("")>>, <<"ApiKey", Some("k")>>}
                     \X {None} \cup {<<"OAuth", None>>} \X {None, Some("gemini")}
              [] provider_type = "gemini" ->
                   {<<"ApiKey", Some("k")>>} \X {None}
                     \cup {<<"OAuth", None>>} \X {None, Some("gemini")}
              [] provider_type = "vertex-ai" -> {<<"OAuth", None>>} \X {None}
              [] OTHER -> {<<"ApiKey", None>>, <<"ApiKey", Some("k")>>} \X {None}

        CloudShapes(provider_type) ==
            IF provider_type = "vertex-ai"
            THEN {None, Some("proj")} \X {None, Some("loc")}
            ELSE {<<None, None>>}
    IN
    UNION { { [name |-> n, enabled |-> en, provider_type |-> ty,
               auth_type |-> a[1][1], api_key |-> a[1][2], oauth_provider |-> a[2],
               base_url |-> None, models |-> ModelsOf(n),
               project_id |-> g[1], location |-> g[2]] :
               n \in Names, en \in BOOLEAN, a \in AuthShapes(ty), g \in CloudShapes(ty) } :
            ty \in {"openai", "gemini", "vertex-ai", "bogus"} }

ConfigLists == UNION { [1..k -> ConfigSpace] : k \in 0..MaxConfigs }

Ok(v) == [tag |-> "Ok", value |-> v]
ConfigError == [tag |-> "Err", error |-> "ConfigError"]
ModelNotSupported == [tag |-> "Err", error |-> "ModelNotSupported"]

\* MapInsert keeping the value already stored under the key
MapInsertKeepFirst(m, k, v) ==
    [x \in DOMAIN m \cup {k} |-> IF x \in DOMAIN m THEN m[x] ELSE v]

\* HashMap::insert
MapInsert(m, k, v) == [x \in DOMAIN m \cup {k} |-> IF x = k THEN v ELSE m[x]]
EmptyMap == [x \in {} |-> x]

\* ProviderRegistry::new
RegistryNew ==
    [status |-> "ok", providers |-> EmptyMap, model_to_provider |-> EmptyMap]

\* GeminiProvider::new: the default base URL is chosen from the OAuth and
\* Vertex AI settings
GeminiNew(name, api_key, base_url, models, oauth_provider_id, token_store, project_id, location) ==
    [kind |-> "Gemini", name |-> name, api_key |-> api_key,
     base_url |-> IF IsSome(base_url) THEN [mode |-> "given", url |-> Unwrap(base_url)]
                  ELSE IF IsSome(oauth_provider_id) THEN [mode |-> "code_assist"]
                  ELSE IF IsSome(project_id) /\ IsSome(location)
                       THEN [mode |-> "vertex", location |-> Unwrap(location)]
                  ELSE [mode |-> "api_key"],
     models |-> models, oauth_provider_id |-> oauth_provider_id,
     token_store |-> token_store, project_id |-> project_id, location |-> location]

\* GeminiProvider::is_oauth
is_oauth(provider) ==
    IsSome(provider.oauth_provider_id) /\ IsSome(provider.token_store)

\* GeminiProvider::is_vertex_ai
is_vertex_ai(provider) ==
    IsSome(provider.project_id) /\ IsSome(provider.location)

\* GeminiProvider::send_message: the endpoint family the request is posted
\* to, or the ConfigError returned when no way of authenticating is set
send_message_endpoint(provider) ==
    IF is_oauth(provider) THEN Ok([mode |-> "code_assist"])
    ELSE IF is_vertex_ai(provider) THEN Ok([mode |-> "vertex"])
    ELSE IF IsSome(provider.api_key) THEN Ok([mode |-> "api_key"])
    ELSE ConfigError

\* the backends whose constructors are called with what from_configs passes
OtherNew(kind, name, api_key, base_url, models, oauth_provider_id) ==
    [kind |-> kind, name |-> name, api_key |-> Some(api_key), base_url |-> base_url,
     models |-> models, oauth_provider_id |-> oauth_provider_id,
     project_id |-> None, location |-> None]

\* from_configs: the key slot of an enabled configuration
ApiKeySlot(config) ==
    IF config.auth_type = "ApiKey"
    THEN IF config.api_key = None THEN ConfigError ELSE Ok(Unwrap(config.api_key))
    ELSE Ok(IF IsSome(config.oauth_provider) THEN Unwrap(config.oauth_provider)
                                             ELSE config.name)

DefaultUrl(base_url, default) ==
    IF IsSome(base_url) THEN [mode |-> "given", url |-> Unwrap(base_url)]
                        ELSE [mode |-> "default", url |-> default]

\* BuildProvider treating an unknown provider_type as an OpenAI-compatible one
BuildProviderLenient(config, api_key, token_store) ==
    Ok(OtherNew("OpenAI", config.name, api_key,
                DefaultUrl(config.base_url, "https://api.openai.com/v1"),
                config.models, config.oauth_provider))

\* from_configs: the dispatch on provider_type
BuildProvider(config, api_key, token_store) ==
    LET ty == config.provider_type IN
    CASE ty \in OpenAINewTypes ->
           Ok(OtherNew("OpenAI", config.name, api_key,
                       DefaultUrl(config.base_url, "https://api.openai.com/v1"),
                       config.models, config.oauth_provider))
      [] ty \in AnthropicNewTypes ->
           Ok(OtherNew("AnthropicCompatible", config.name, api_key,
                       DefaultUrl(config.base_url, "https://api.anthropic.com"),
                       config.models, config.oauth_provider))
      [] ty \in AnthropicPresetTypes ->
           Ok(OtherNew("AnthropicCompatible", ty, api_key, [mode |-> "preset"],
                       config.models, None))
      [] ty \in OpenAIPresetTypes ->
           Ok(OtherNew("OpenAI", config.name, api_key, [mode |-> "preset"],
                       config.models, None))
      [] ty = "gemini" ->
           Ok(GeminiNew(config.name,
                        IF config.auth_type = "ApiKey" THEN Some(api_key) ELSE None,
                        config.base_url, config.models, config.oauth_provider,
                        token_store, None, None))
      [] ty = "vertex-ai" ->
           Ok(GeminiNew(config.name, None, config.base_url, config.models, None,
                        token_store, config.project_id, config.location))
      [] OTHER -> ConfigError

\* is_enabled taking every entry as enabled
is_enabled_always(config) == TRUE

\* ProviderConfig::is_enabled
is_enabled(config) == config.enabled

RECURSIVE FromConfigsLoop(_, _, _, _)
\* from_configs: the loop over the list, from entry i on
FromConfigsLoop(cfgs, token_store, i, reg) ==
    IF i > Len(cfgs) THEN reg
    ELSE LET config == cfgs[i] IN
         IF ~is_enabled(config) THEN FromConfigsLoop(cfgs, token_store, i + 1, reg)
         ELSE LET api_key == ApiKeySlot(config) IN
              IF api_key.tag = "Err" THEN [status |-> "err", error |-> api_key.error]
              ELSE LET provider == BuildProvider(config, api_key.value, token_store) IN
                   IF provider.tag = "Err"
                   THEN [status |-> "err", error |-> provider.error]
                   ELSE FromConfigsLoop(cfgs, token_store, i + 1,
                          [reg EXCEPT !.providers =
                              MapInsert(@, config.name, provider.value)])

\* ProviderRegistry::from_configs
from_configs(cfgs, token_store) == FromConfigsLoop(cfgs, token_store, 1, RegistryNew)

\* supports_model: membership in the configured model list
supports_model(provider, model) ==
    \E i \in 1..Len(provider.models) : provider.models[i] = model

\* the orders in which a HashMap may hand out its keys
IterationOrders(m) ==
    {o \in [1..Cardinality(DOMAIN m) -> DOMAIN m] :
        \A i, j \in DOMAIN o : i # j => o[i] # o[j]}

\* ScanProviders without the supports_model test: the first provider is taken
ScanProvidersAny(reg, order, model) ==
    IF Len(order) = 0 THEN ModelNotSupported
    ELSE Ok(reg.providers[order[1]])

\* get_provider_for_model: the scan over providers.values(), in the order the
\* map iterates
ScanProviders(reg, order, model) ==
    LET hits == {i \in 1..Len(order) : supports_model(reg.providers[order[i]], model)}
    IN  IF hits = {} THEN ModelNotSupported
        ELSE Ok(reg.providers[order[CHOOSE i \in hits : \A j \in hits : i <= j]])

\* ProviderRegistry::get_provider_for_model
get_provider_for_model(reg, order, model) ==
    IF /\ model \in DOMAIN reg.model_to_provider
       /\ reg.model_to_provider[model] \in DOMAIN reg.providers
    THEN Ok(reg.providers[reg.model_to_provider[model]])
    ELSE ScanProviders(reg, order, model)

\* ProviderRegistry::get_provider
get_provider(reg, name) ==
    IF name \in DOMAIN reg.providers THEN Some(reg.providers[name]) ELSE None

\* ProviderRegistry::list_providers: the keys, in the order the map iterates
list_providers(reg, order) == order

\* list_models taking the models of the registered providers
list_models_of_providers(reg, order) ==
    LET RECURSIVE All(_)
        All(o) == IF Len(o) = 0 THEN <<>>
                  ELSE reg.providers[Head(o)].models \o All(Tail(o))
    IN  All(reg.order)

\* ProviderRegistry::list_models: the keys of model_to_provider, in the
\* order that map iterates
list_models(reg, order) == order

\* the names a caller may ask get_provider for; "zz" is never configured

InitReg ==
    /\ configs \in ConfigLists
    /\ registry = NoRegistry
    /\ lookup = NoLookup
    /\ store = [id \in ProviderIds |-> None]
    /\ writes = [id \in ProviderIds |-> 0]
    /\ now = 0
    /\ pc = [p \in Procs |-> "idle"]
    /\ call = [p \in Procs |-> EmptyCall]
    /\ issued = [id \in ProviderIds |-> 0]
    /\ budget = [env |-> 0]
    /\ FnIdle

\* a result of construction, with how it was made: the constructor, the
\* token store it was given, and the order in which its providers map
\* iterates, which stays the same for as long as the map is not touched
Built(made, r) ==
    [x \in DOMAIN r \cup DOMAIN made |-> IF x \in DOMAIN made THEN made[x] ELSE r[x]]

\* the gateway builds its registry from the configuration list
FromConfigs ==
    /\ registry = NoRegistry
    /\ \E token_store \in {None, Some("token_store")} :
         LET r == from_configs(configs, token_store) IN
         \E order \in IF r.status = "ok" THEN IterationOrders(r.providers) ELSE {<<>>} :
            registry' = Built([via |-> "from_configs", token_store |-> token_store,
                               order |-> order], r)
    /\ UNCHANGED <<configs, lookup, tokVars, fnVars>>

\* a registry is made with ProviderRegistry::new()
New ==
    /\ registry = NoRegistry
    /\ registry' = Built([via |-> "new", token_store |-> None, order |-> <<>>],
                         RegistryNew)
    /\ UNCHANGED <<configs, lookup, tokVars, fnVars>>

\* a request is routed by its model name
GetProviderForModel(model) ==
    /\ registry.status = "ok"
    /\ lookup' = [op |-> "get_provider_for_model", model |-> model,
                  result |-> get_provider_for_model(registry, registry.order, model)]
    /\ UNCHANGED <<configs, registry, tokVars, fnVars>>

\* a provider is fetched by name
GetProvider(name) ==
    /\ registry.status = "ok"
    /\ lookup' = [op |-> "get_provider", name |-> name,
                  result |-> get_provider(registry, name)]
    /\ UNCHANGED <<configs, registry, tokVars, fnVars>>

\* the registered names are listed
ListProviders ==
    /\ registry.status = "ok"
    /\ lookup' = [op |-> "list_providers",
                  result |-> list_providers(registry, registry.order)]
    /\ UNCHANGED <<configs, registry, tokVars, fnVars>>

\* the indexed model names are listed
ListModels ==
    /\ registry.status = "ok"
    /\ \E order \in IterationOrders(registry.model_to_provider) :
         lookup' = [op |-> "list_models", result |-> list_models(registry, order)]
    /\ UNCHANGED <<configs, registry, tokVars, fnVars>>

\* a request is handed to a registered Gemini provider, which picks the
\* endpoint family it posts to
SendMessageEndpoint(name) ==
    /\ registry.status = "ok"
    /\ name \in DOMAIN registry.providers
    /\ registry.providers[name].kind = "Gemini"
    /\ lookup' = [op |-> "send_message", name |-> name,
                  result |-> send_message_endpoint(registry.providers[name])]
    /\ UNCHANGED <<configs, registry, tokVars, fnVars>>

NextReg ==
    \/ FromConfigs
    \/ New
    \/ \E model \in Models : GetProviderForModel(model)
    \/ \E name \in Names \cup {"zz"} : GetProvider(name)
    \/ ListProviders
    \/ ListModels
    \/ \E name \in Names : SendMessageEndpoint(name)

SpecReg == InitReg /\ [][NextReg]_vars

(***************************************************************************)
(* The function model: args holds the function and its arguments, ret its  *)
(* result once it has been applied.                                        *)
(***************************************************************************)
\* the token model at rest
TokIdle ==
    /\ store = [id \in ProviderIds |-> None]
    /\ writes = [id \in ProviderIds |-> 0]
    /\ now = 0
    /\ pc = [p \in Procs |-> "idle"]
    /\ call = [p \in Procs |-> EmptyCall]
    /\ issued = [id \in ProviderIds |-> 0]
    /\ budget = [env |-> 0]

\* upstream answers to generateContent: statuses, bodies (None: unreadable)
\* and the model names of the requests they answer
SendMessageInputs ==
    LET ResponseStatuses == {199, 200, 204, 299, 300, 400, 404, 500}
        ResponseBodies == {None, Some(<<>>), Some(<<"e", "r", "r">>)}
        ModelNames == {<<"g", "e", "m", "i", "n", "i", "-", "3", "-", "p", "r", "o">>,
                      <<"g", "e", "m", "i", "n", "i", "-", "2", ".", "5", "-", "p", "r", "o">>,
                      <<"x", "-", "p", "r", "e", "v", "i", "e", "w">>,
                      <<"G", "e", "m", "i", "n", "i", "-", "3">>,
                      <<"g", "e", "m", "i", "n", "i", "-">>,
                      <<"g", "e", "m", "i", "n", "i", "-", "3", "0">>}
    IN  {[fn |-> "send_message_response", oauth |-> o, model |-> m, status |-> st,
          body |-> b] :
            o \in BOOLEAN, m \in ModelNames, st \in ResponseStatuses, b \in ResponseBodies}

\* send_message receives the upstream response
SendMessageResponse ==
    /\ args.fn = "send_message_response" /\ ret = NoRet
    /\ ret' = HandleResponse(args.oauth, args.model, args.status, args.body)
    /\ UNCHANGED <<args, tokVars, regVars>>

\* what the random number generator may hand to PKCEVerifier::generate; the
\* first is the octet sequence of the sample of RFC 7636, appendix B
RfcRandomBytes == <<
    116, 24, 223, 180, 151, 153, 224, 37, 79, 250, 96, 125, 216, 173, 187, 186,
    22, 212, 37, 77, 105, 214, 191, 240, 91, 88, 5, 88, 83, 132, 141, 121 >>
RandomBytes32 ==
    {RfcRandomBytes, [i \in 1..32 |-> 0], [i \in 1..32 |-> 255],
     [i \in 1..32 |-> (37 * i) % 256]}

\* generate hashing the random bytes instead of the verifier string
generate_hashing_bytes(random_bytes) ==
    [verifier |-> Base64UrlNoPad(random_bytes),
     challenge |-> Base64UrlNoPad(Sha256(random_bytes))]

\* PKCEVerifier::generate, for the 32 bytes the generator produced
generate(random_bytes) ==
    LET verifier == Base64UrlNoPad(random_bytes)
    IN  [verifier |-> verifier,
         challenge |-> Base64UrlNoPad(Sha256(AsBytes(verifier)))]

GenerateInputs == {[fn |-> "generate", random_bytes |-> rb] : rb \in RandomBytes32}

\* a PKCE pair is generated
Generate ==
    /\ args.fn = "generate" /\ ret = NoRet
    /\ ret' = generate(args.random_bytes)
    /\ UNCHANGED <<args, tokVars, regVars>>

(***************************************************************************)
(* OAuthConfig and OAuthClient::get_authorization_url.                     *)
(***************************************************************************)
CodexClientId == <<
        "a", "p", "p", "_", "E", "M", "o", "a", "m", "E", "E", "Z", "7", "3", "f", "0", "C", "k", "X", "a",
        "X", "p", "7", "h", "r", "a", "n", "n" >>

\* OAuthConfig::anthropic
OAuthConfigAnthropic ==
    [client_id |-> <<
        "9", "d", "1", "c", "2", "5", "0", "a", "-", "e", "6", "1", "b", "-", "4", "4", "d", "9", "-", "8",
        "8", "e", "d", "-", "5", "9", "4", "4", "d", "1", "9", "6", "2", "f", "5", "e" >>,
     auth_url |-> <<
        "h", "t", "t", "p", "s", ":", "/", "/", "c", "l", "a", "u", "d", "e", ".", "a", "i", "/", "o", "a",
        "u", "t", "h", "/", "a", "u", "t", "h", "o", "r", "i", "z", "e" >>,
     redirect_uri |-> <<
        "h", "t", "t", "p", "s", ":", "/", "/", "c", "o", "n", "s", "o", "l", "e", ".", "a", "n", "t", "h",
        "r", "o", "p", "i", "c", ".", "c", "o", "m", "/", "o", "a", "u", "t", "h", "/", "c", "o", "d", "e",
        "/", "c", "a", "l", "l", "b", "a", "c", "k" >>,
     scopes |-> <<<<"o", "r", "g", ":", "c", "r", "e", "a", "t", "e", "_", "a", "p", "i", "_", "k", "e", "y">>,
                  <<"u", "s", "e", "r", ":", "p", "r", "o", "f", "i", "l", "e">>,
                  <<"u", "s", "e", "r", ":", "i", "n", "f", "e", "r", "e", "n", "c", "e">>>>]

\* OAuthConfig::openai_codex
OAuthConfigOpenAICodex ==
    [client_id |-> CodexClientId,
     auth_url |-> <<
        "h", "t", "t", "p", "s", ":", "/", "/", "a", "u", "t", "h", ".", "o", "p", "e", "n", "a", "i", ".",
        "c", "o", "m", "/", "o", "a", "u", "t", "h", "/", "a", "u", "t", "h", "o", "r", "i", "z", "e" >>,
     redirect_uri |-> <<
        "h", "t", "t", "p", ":", "/", "/", "l", "o", "c", "a", "l", "h", "o", "s", "t", ":", "1", "4", "5",
        "5", "/", "a", "u", "t", "h", "/", "c", "a", "l", "l", "b", "a", "c", "k" >>,
     scopes |-> <<<<"o", "p", "e", "n", "i", "d">>, <<"p", "r", "o", "f", "i", "l", "e">>, <<"e", "m", "a", "i", "l">>,
                  <<"o", "f", "f", "l", "i", "n", "e", "_", "a", "c", "c", "e", "s", "s">>>>]

\* the configurations: anthropic, anthropic_console, openai_codex, and one
\* with a client_id of its own and no scopes
OAuthConfigs ==
    LET OAuthConfigAnthropicConsole ==
            [OAuthConfigAnthropic EXCEPT !.auth_url = <<
                "h", "t", "t", "p", "s", ":", "/", "/", "c", "o", "n", "s", "o", "l", "e", ".", "a", "n", "t", "h",
                "r", "o", "p", "i", "c", ".", "c", "o", "m", "/", "o", "a", "u", "t", "h", "/", "a", "u", "t", "h",
                "o", "r", "i", "z", "e" >>]
        OAuthConfigOther ==
            [client_id |-> <<"a", "p", "p", "_", "o", "t", "h", "e", "r">>,
             auth_url |-> <<
                "h", "t", "t", "p", "s", ":", "/", "/", "a", "u", "t", "h", ".", "o", "p", "e", "n", "a", "i", ".",
                "c", "o", "m", "/", "o", "a", "u", "t", "h", "/", "a", "u", "t", "h", "o", "r", "i", "z", "e" >>,
             redirect_uri |-> <<
                "h", "t", "t", "p", ":", "/", "/", "l", "o", "c", "a", "l", "h", "o", "s", "t", ":", "1", "4", "5",
                "5", "/", "a", "u", "t", "h", "/", "c", "a", "l", "l", "b", "a", "c", "k" >>,
             scopes |-> <<>>]
    IN  {OAuthConfigAnthropic, OAuthConfigAnthropicConsole, OAuthConfigOpenAICodex,
         OAuthConfigOther}

\* format!("{:02x}", b) over the bytes, concatenated
HexLower(bytes) ==
    [i \in 1..(2 * Len(bytes)) |->
        LET HexDigits == <<"0", "1", "2", "3", "4", "5", "6", "7",
                           "8", "9", "a", "b", "c", "d", "e", "f">>
            b == bytes[(i + 1) \div 2]
        IN  HexDigits[(IF i % 2 = 1 THEN b \div 16 ELSE b % 16) + 1]]

\* form_urlencoded::byte_serialize of an ASCII string: safe characters stay,
\* (digits, letters and * - . _), a space becomes '+', any other byte
\* becomes %XX
FormUrlEncode(str) ==
    LET FormSafe ==
            {Printable[i] : i \in (17..26) \cup (34..59) \cup (66..91)}
                \cup {"*", "-", ".", "_"}
        UpperHexDigits == <<"0", "1", "2", "3", "4", "5", "6", "7",
                            "8", "9", "A", "B", "C", "D", "E", "F">>
        width(c) == IF c \in FormSafe \/ c = " " THEN 1 ELSE 3
        end(i) == i + 2 * Cardinality({j \in 1..i : width(str[j]) = 3})
    IN  [k \in 1..end(Len(str)) |->
            LET i == CHOOSE i \in 1..Len(str) : end(i - 1) < k /\ k <= end(i)
                c == str[i]
                o == k - end(i - 1)
            IN  IF c \in FormSafe THEN c
                ELSE IF c = " " THEN "+"
                ELSE IF o = 1 THEN "%"
                ELSE IF o = 2 THEN UpperHexDigits[(AsciiCode(c) \div 16) + 1]
                ELSE UpperHexDigits[(AsciiCode(c) % 16) + 1]]

RECURSIVE Join(_, _)
\* [String]::join
Join(strs, sep) ==
    IF Len(strs) = 0 THEN <<>>
    ELSE IF Len(strs) = 1 THEN strs[1]
    ELSE strs[1] \o sep \o Join(Tail(strs), sep)

RECURSIVE AppendPairs(_, _)
\* url.query_pairs_mut().append_pair(name, value) for each pair in turn
AppendPairs(url, pairs) ==
    IF Len(pairs) = 0 THEN url
    ELSE AppendPairs(url \o (IF Contains(url, <<"?">>) THEN <<"&">> ELSE <<"?">>)
                         \o FormUrlEncode(pairs[1][1]) \o <<"=">>
                         \o FormUrlEncode(pairs[1][2]),
                     Tail(pairs))

\* the parameter names and fixed values of the authorization URL
QueryText ==
    [response_type |-> <<"r", "e", "s", "p", "o", "n", "s", "e", "_", "t", "y", "p", "e">>,
     code |-> <<"c", "o", "d", "e">>,
     client_id |-> <<"c", "l", "i", "e", "n", "t", "_", "i", "d">>,
     redirect_uri |-> <<"r", "e", "d", "i", "r", "e", "c", "t", "_", "u", "r", "i">>,
     scope |-> <<"s", "c", "o", "p", "e">>,
     code_challenge |-> <<"c", "o", "d", "e", "_", "c", "h", "a", "l", "l", "e", "n", "g", "e">>,
     code_challenge_method |-> <<"c", "o", "d", "e", "_", "c", "h", "a", "l", "l", "e", "n", "g", "e", "_", "m", "e", "t", "h", "o", "d">>,
     S256 |-> <<"S", "2", "5", "6">>,
     state |-> <<"s", "t", "a", "t", "e">>,
     id_token_add_organizations |-> <<"i", "d", "_", "t", "o", "k", "e", "n", "_", "a", "d", "d", "_", "o", "r", "g", "a", "n", "i", "z", "a", "t", "i", "o", "n", "s">>,
     true |-> <<"t", "r", "u", "e">>,
     codex_cli_simplified_flow |-> <<"c", "o", "d", "e", "x", "_", "c", "l", "i", "_", "s", "i", "m", "p", "l", "i", "f", "i", "e", "d", "_", "f", "l", "o", "w">>,
     originator |-> <<"o", "r", "i", "g", "i", "n", "a", "t", "o", "r">>,
     codex_cli_rs |-> <<"c", "o", "d", "e", "x", "_", "c", "l", "i", "_", "r", "s">>]

\* the query parameters of the Codex dialect
CodexPairs(config, pkce, state) ==
    << <<QueryText.response_type, QueryText.code>>,
       <<QueryText.client_id, config.client_id>>,
       <<QueryText.redirect_uri, config.redirect_uri>>,
       <<QueryText.scope, Join(config.scopes, <<" ">>)>>,
       <<QueryText.code_challenge, pkce.challenge>>,
       <<QueryText.code_challenge_method, QueryText.S256>>,
       <<QueryText.state, state>>,
       <<QueryText.id_token_add_organizations, QueryText.true>>,
       <<QueryText.codex_cli_simplified_flow, QueryText.true>>,
       <<QueryText.originator, QueryText.codex_cli_rs>> >>

\* the query parameters of the Anthropic dialect: the state is the verifier
AnthropicPairs(config, pkce) ==
    << <<QueryText.code, QueryText.true>>,
       <<QueryText.client_id, config.client_id>>,
       <<QueryText.response_type, QueryText.code>>,
       <<QueryText.redirect_uri, config.redirect_uri>>,
       <<QueryText.scope, Join(config.scopes, <<" ">>)>>,
       <<QueryText.code_challenge, pkce.challenge>>,
       <<QueryText.code_challenge_method, QueryText.S256>>,
       <<QueryText.state, pkce.verifier>> >>

\* get_authorization_url using the Anthropic dialect for every client_id
get_authorization_url_one_dialect(config, random_bytes, state_bytes) ==
    LET pkce == generate(random_bytes)
    IN  [url |-> AppendPairs(config.auth_url, AnthropicPairs(config, pkce)),
         verifier |-> pkce]

\* OAuthClient::get_authorization_url, for the bytes the generator produced
\* for the PKCE pair and for the state
get_authorization_url(config, random_bytes, state_bytes) ==
    LET pkce == generate(random_bytes)
        is_openai_codex == config.client_id = CodexClientId
    IN  [url |-> IF is_openai_codex
                 THEN AppendPairs(config.auth_url,
                                  CodexPairs(config, pkce, HexLower(state_bytes)))
                 ELSE AppendPairs(config.auth_url, AnthropicPairs(config, pkce)),
         verifier |-> pkce]

\* the configurations and what the random number generator may hand out
\* for the PKCE pair and for the state
GetAuthorizationUrlInputs ==
    {[fn |-> "get_authorization_url", config |-> c, random_bytes |-> rb, state_bytes |-> sb] :
        c \in OAuthConfigs, rb \in RandomBytes32,
        sb \in {[i \in 1..16 |-> 0], [i \in 1..16 |-> 255],
                [i \in 1..16 |-> (171 * i) % 256]}}

\* an authorization URL is generated
GetAuthorizationUrl ==
    /\ args.fn = "get_authorization_url" /\ ret = NoRet
    /\ ret' = get_authorization_url(args.config, args.random_bytes, args.state_bytes)
    /\ UNCHANGED <<args, tokVars, regVars>>

(***************************************************************************)
(* transform_openai_to_anthropic (src/src/server/openai_compat.rs).        *)
(***************************************************************************)
\* how many messages a request may have, and how many parts a content array
MaxMsgs == 3
MaxParts == 2

\* An OpenAIContent is [kind |-> "String", text] or [kind |-> "Parts", parts];
\* an OpenAIContentPart is [type |-> "text", text] or [type |-> "image_url", url].

\* MessageContent, ContentBlock and ImageSource
Text(text) == [kind |-> "Text", text |-> text]
Blocks(blocks) == [kind |-> "Blocks", blocks |-> blocks]
BlockText(text) == [type |-> "text", text |-> text]
BlockImage(type, media_type, data, url) ==
    [type |-> "image",
     source |-> [type |-> type, media_type |-> media_type, data |-> data, url |-> url]]

\* the literals the image_url arm looks for
ImageText ==
    [data |-> <<"d", "a", "t", "a", ":">>,
     jpeg |-> <<"i", "m", "a", "g", "e", "/", "j", "p", "e", "g">>,
     png |-> <<"i", "m", "a", "g", "e", "/", "p", "n", "g">>,
     gif |-> <<"i", "m", "a", "g", "e", "/", "g", "i", "f">>,
     webp |-> <<"i", "m", "a", "g", "e", "/", "w", "e", "b", "p">>]

\* MediaType taking the media type that comes first in the header
MediaTypePositional(header) ==
    LET known == {ImageText.jpeg, ImageText.png, ImageText.gif, ImageText.webp}
        at(m) == CHOOSE i \in 0..Len(header) : SubSeq(header, i + 1, i + Len(m)) = m
                    /\ \A j \in 0..(i - 1) : SubSeq(header, j + 1, j + Len(m)) # m
        found == {m \in known : Contains(header, m)}
    IN  IF found = {} THEN ImageText.png
        ELSE CHOOSE m \in found : \A n \in found : at(m) <= at(n)

\* the media type of a data URL, by substring match on its header
MediaType(header) ==
    IF Contains(header, ImageText.jpeg) THEN ImageText.jpeg
    ELSE IF Contains(header, ImageText.png) THEN ImageText.png
    ELSE IF Contains(header, ImageText.gif) THEN ImageText.gif
    ELSE IF Contains(header, ImageText.webp) THEN ImageText.webp
    ELSE ImageText.png

\* the block of one content part, None when the part yields none
PartBlock(part) ==
    IF part.type = "text" THEN Some(BlockText(part.text))
    ELSE IF StartsWith(part.url, ImageText.data)
         THEN LET comma_idx == Find(part.url, ",") IN
              IF comma_idx > 0
              THEN Some(BlockImage("base64",
                                   Some(MediaType(SubSeq(part.url, 1, comma_idx - 1))),
                                   Some(SubSeq(part.url, comma_idx + 1, Len(part.url))),
                                   None))
              ELSE None
         ELSE Some(BlockImage("url", None, None, Some(part.url)))

RECURSIVE FilterMapBlocks(_)
\* parts.iter().filter_map(...).collect()
FilterMapBlocks(parts) ==
    IF Len(parts) = 0 THEN <<>>
    ELSE LET b == PartBlock(parts[1])
         IN  (IF IsSome(b) THEN <<Unwrap(b)>> ELSE <<>>) \o FilterMapBlocks(Tail(parts))

\* the content of a user or assistant message
ConvertContent(content) ==
    IF content = None THEN Text(<<>>)
    ELSE IF Unwrap(content).kind = "String" THEN Text(Unwrap(content).text)
    ELSE LET blocks == FilterMapBlocks(Unwrap(content).parts)
         IN  IF Len(blocks) = 0 THEN Text(<<>>) ELSE Blocks(blocks)

\* the text of a system message: the string, or the text parts joined by "\n"
SystemText(content) ==
    IF content.kind = "String" THEN content.text
    ELSE LET texts == SelectSeq(content.parts, LAMBDA part : part.type = "text")
         IN  Join([i \in 1..Len(texts) |-> texts[i].text], <<"\n">>)

\* ConvertRole keeping the messages of every role but "system"
ConvertRoleAny(role) ==
    IF role = "system" THEN "system" ELSE "message"

\* the arm of the match on msg.role
ConvertRole(role) ==
    IF role = "system" THEN "system"
    ELSE IF role \in {"user", "assistant"} THEN "message"
    ELSE "skip"

RECURSIVE TransformMessages(_, _, _, _)
\* the loop over openai_req.messages, from message i on: the canonical
\* messages and the system prompt
TransformMessages(msgs, i, messages, system_prompt) ==
    IF i > Len(msgs) THEN [messages |-> messages, system |-> system_prompt]
    ELSE LET msg == msgs[i]
             arm == ConvertRole(msg.role)
         IN  IF arm = "system"
             THEN TransformMessages(msgs, i + 1, messages,
                     IF IsSome(msg.content) THEN Some(SystemText(Unwrap(msg.content)))
                                            ELSE system_prompt)
             ELSE IF arm = "message"
             THEN TransformMessages(msgs, i + 1,
                     Append(messages, [role |-> msg.role,
                                       content |-> ConvertContent(msg.content)]),
                     system_prompt)
             ELSE TransformMessages(msgs, i + 1, messages, system_prompt)

transform_openai_to_anthropic(openai_req) ==
    LET r == TransformMessages(openai_req.messages, 1, <<>>, None)
    IN  Ok([model |-> openai_req.model,
            messages |-> r.messages,
            max_tokens |-> IF IsSome(openai_req.max_tokens)
                           THEN Unwrap(openai_req.max_tokens) ELSE 4096,
            system |-> r.system,
            stream |-> openai_req.stream,
            tools |-> None])

\* the inbound requests: message lists over a few roles and contents, and
\* single messages over content arrays of texts and image URLs
TransformOpenAIInputs ==
    LET ContentString(text) == [kind |-> "String", text |-> text]
        ContentParts(parts) == [kind |-> "Parts", parts |-> parts]
        PartText(text) == [type |-> "text", text |-> text]
        PartImageUrl(url) == [type |-> "image_url", url |-> url]
        Roles == {"system", "user", "assistant", "tool"}
        ExternalUrl == <<"h", "t", "t", "p", "s", ":", "/", "/", "x", "/", "y", ".", "p", "n", "g">>
        ImageUrls ==
            {<<
                "d", "a", "t", "a", ":", "i", "m", "a", "g", "e", "/", "j", "p", "e", "g", ";", "b", "a", "s", "e",
                "6", "4", ",", "A", "A", "A" >>,
             <<
                "d", "a", "t", "a", ":", "i", "m", "a", "g", "e", "/", "g", "i", "f", ",", "i", "m", "a", "g", "e",
                "/", "p", "n", "g", ",", "B" >>,
             <<"d", "a", "t", "a", ":", "t", "e", "x", "t", "/", "p", "l", "a", "i", "n", ",", "C">>,
             <<
                "d", "a", "t", "a", ":", "i", "m", "a", "g", "e", "/", "p", "n", "g", ";", "i", "m", "a", "g", "e",
                "/", "j", "p", "e", "g", ",", "D" >>,
             <<"d", "a", "t", "a", ":", "i", "m", "a", "g", "e", "/", "w", "e", "b", "p">>,
             <<"D", "a", "t", "a", ":", "i", "m", "a", "g", "e", "/", "g", "i", "f", ",", "E">>,
             ExternalUrl}
        PartValues ==
            {PartText(<<"a">>), PartText(<<"b">>)} \cup {PartImageUrl(u) : u \in ImageUrls}
        PartLists == UNION {[1..k -> PartValues] : k \in 0..MaxParts}
        MessageContents ==
            {None, Some(ContentString(<<"a">>)), Some(ContentString(<<"b">>)),
             Some(ContentParts(<<PartText(<<"a">>), PartImageUrl(ExternalUrl),
                                 PartText(<<"b">>)>>))}
        MessageValues == {[role |-> r, content |-> c] : r \in Roles, c \in MessageContents}
        MessageLists == UNION {[1..k -> MessageValues] : k \in 0..MaxMsgs}
        OpenAIRequest(messages) ==
            [model |-> RequestModel, messages |-> messages, max_tokens |-> None,
             stream |-> None]
    IN  {[fn |-> "transform_openai_to_anthropic", openai_req |-> OpenAIRequest(ms)] :
            ms \in MessageLists \cup {<<[role |-> r, content |-> Some(ContentParts(ps))]>> :
                                         r \in {"user", "assistant"}, ps \in PartLists}}

\* an inbound OpenAI request is translated
TransformOpenAIToAnthropic ==
    /\ args.fn = "transform_openai_to_anthropic" /\ ret = NoRet
    /\ ret' = transform_openai_to_anthropic(args.openai_req)
    /\ UNCHANGED <<args, tokVars, regVars>>

(***************************************************************************)
(* transform_anthropic_to_openai (src/src/server/openai_compat.rs).  A u32 *)
(* is a pair <<high 16 bits, low 16 bits>>.                                *)
(***************************************************************************)
\* the thread panicked
Panic == [tag |-> "panic"]

\* a + b on u32: with overflow checks (a debug build) an overflowing sum
\* panics, without them (a release build) it wraps
U32Add(a, b, overflow_checks) ==
    LET overflows == a[1] + b[1] + ((a[2] + b[2]) \div 65536) >= 65536
    IN  IF overflows /\ overflow_checks THEN Panic ELSE Ok(WAdd(a, b))

\* the texts of the Text blocks
RECURSIVE TextsOf(_)
TextsOf(blocks) ==
    IF Len(blocks) = 0 THEN <<>>
    ELSE (IF blocks[1].type = "text" THEN <<blocks[1].text>> ELSE <<>>)
            \o TextsOf(Tail(blocks))

\* the finish_reason of a stop_reason
FinishReason(reason) ==
    IF reason = "max_tokens" THEN "length" ELSE "stop"

transform_anthropic_to_openai(anthropic_resp, model, created, overflow_checks) ==
    LET content == Join(TextsOf(anthropic_resp.content), <<"\n">>)
        total == U32Add(anthropic_resp.usage.input_tokens,
                        anthropic_resp.usage.output_tokens, overflow_checks)
    IN  IF total = Panic THEN Panic
        ELSE Ok([id |-> anthropic_resp.id,
                 object |-> "chat.completion",
                 created |-> created,
                 model |-> model,
                 choices |-> <<[index |-> 0,
                                message |-> [role |-> anthropic_resp.role,
                                             content |-> IF Len(content) = 0 THEN None
                                                         ELSE Some(content)],
                                finish_reason |->
                                    IF IsSome(anthropic_resp.stop_reason)
                                    THEN Some(FinishReason(Unwrap(anthropic_resp.stop_reason)))
                                    ELSE None]>>,
                 usage |-> [prompt_tokens |-> anthropic_resp.usage.input_tokens,
                            completion_tokens |-> anthropic_resp.usage.output_tokens,
                            total_tokens |-> total.value]])

\* the responses translated: counters from zero to the largest u32
TransformAnthropicInputs ==
    LET U32Values == {<<0, 0>>, <<0, 100>>, <<32768, 0>>, <<65535, 65535>>}
        ResponseContents ==
            {<<>>, <<BlockText(<<"a">>)>>, <<BlockText(<<>>)>>,
             <<BlockText(<<"a">>), [type |-> "tool_use"], BlockText(<<"b">>)>>}
        StopReasons ==
            {None, Some("end_turn"), Some("max_tokens"), Some("stop_sequence"),
             Some("tool_use")}
    IN
    {[fn |-> "transform_anthropic_to_openai",
      anthropic_resp |-> [id |-> "msg_1", role |-> "assistant", content |-> c,
                          stop_reason |-> s,
                          usage |-> [input_tokens |-> i, output_tokens |-> o]],
      model |-> RequestModel,
      created |-> 1700000000,
      overflow_checks |-> b] :
        c \in ResponseContents, s \in StopReasons, i \in U32Values, o \in U32Values,
        b \in BOOLEAN}

\* a provider response is translated
TransformAnthropicToOpenAI ==
    /\ args.fn = "transform_anthropic_to_openai" /\ ret = NoRet
    /\ ret' = transform_anthropic_to_openai(args.anthropic_resp, args.model,
                                            args.created, args.overflow_checks)
    /\ UNCHANGED <<args, tokVars, regVars>>

(***************************************************************************)
(* clean_json_schema (src/src/providers/gemini.rs).  A JSON value is       *)
(* [kind |-> "scalar", value], [kind |-> "array", items] with a sequence   *)
(* of values, or [kind |-> "object", map] with a function from its keys to *)
(* values.                                                                 *)
(***************************************************************************)
\* how many nodes (scalars, arrays, objects) a generated JSON value may have
MaxNodes == 5

\* the JSON Schema metadata keys that are removed
ForbiddenKeys ==
    {"$schema", "$id", "$ref", "$comment", "exclusiveMinimum", "exclusiveMaximum",
     "definitions", "$defs"}

RECURSIVE clean_json_schema_objects_only(_)
\* clean_json_schema without the descent into array elements
clean_json_schema_objects_only(value) ==
    IF value.kind = "object"
    THEN [kind |-> "object",
          map |-> [k \in DOMAIN value.map \ ForbiddenKeys |->
                      clean_json_schema_objects_only(value.map[k])]]
    ELSE value

RECURSIVE clean_json_schema(_)
\* the value as clean_json_schema leaves it
clean_json_schema(value) ==
    IF value.kind = "object"
    THEN [kind |-> "object",
          map |-> [k \in DOMAIN value.map \ ForbiddenKeys |->
                      clean_json_schema(value.map[k])]]
    ELSE IF value.kind = "array"
    THEN [kind |-> "array",
          items |-> [i \in 1..Len(value.items) |-> clean_json_schema(value.items[i])]]
    ELSE value

\* the schemas cleaned: every JSON value of up to MaxNodes nodes over the keys
\* "$ref" and "type", and every flat object over the removed keys and "type"
CleanJsonSchemaInputs ==
    LET Scalar == [kind |-> "scalar", value |-> 1]
        Keys == {"$ref", "type"}
        RECURSIVE Values(_), Lists(_)
        \* the values of exactly n nodes
        Values(n) ==
            IF n = 1
            THEN {Scalar, [kind |-> "array", items |-> <<>>],
                  [kind |-> "object", map |-> <<>>]}
            ELSE {[kind |-> "array", items |-> l] : l \in Lists(n - 1)}
                 \cup {[kind |-> "object", map |-> [x \in {k} |-> v]] :
                          k \in Keys, v \in Values(n - 1)}
                 \cup UNION {{[kind |-> "object",
                               map |-> [x \in Keys |-> IF x = "type" THEN v ELSE w]] :
                                 v \in Values(i), w \in Values(n - 1 - i)} :
                             i \in 1..(n - 2)}
        \* the non-empty lists of values of n nodes in all
        Lists(n) ==
            UNION {{<<v>> \o l : v \in Values(i),
                                 l \in IF i = n THEN {<<>>} ELSE Lists(n - i)} :
                   i \in 1..n}
    IN  {[fn |-> "clean_json_schema", value |-> v] :
            v \in UNION {Values(n) : n \in 1..MaxNodes}
                  \cup {[kind |-> "object", map |-> [k \in ks |-> Scalar]] :
                           ks \in SUBSET (ForbiddenKeys \cup {"type"})}}

\* a tool's input schema is cleaned
CleanJsonSchema ==
    /\ args.fn = "clean_json_schema" /\ ret = NoRet
    /\ ret' = Ok(clean_json_schema(args.value))
    /\ UNCHANGED <<args, tokVars, regVars>>

(***************************************************************************)
(* GeminiProvider::transform_request (src/src/providers/gemini.rs).        *)
(***************************************************************************)
\* a u32 cast with `as i32`: values from 2^31 on come out negative
AsI32(u) ==
    IF u[1] < 32768 THEN u[1] * 65536 + u[2] ELSE (u[1] - 65536) * 65536 + u[2]

\* BlockPart forwarding an image as soon as it has data
BlockPartAnyData(block) ==
    IF block.type = "text" THEN Some([text |-> block.text])
    ELSE IF block.type = "thinking" THEN Some([text |-> block.thinking])
    ELSE IF block.type = "image" /\ IsSome(block.source.data)
    THEN Some([inline_data |->
                  [mime_type |-> IF IsSome(block.source.media_type)
                                 THEN Unwrap(block.source.media_type) ELSE <<>>,
                   data |-> Unwrap(block.source.data)]])
    ELSE None

\* the part pushed for one content block, None when none is pushed
BlockPart(block) ==
    IF block.type = "text" THEN Some([text |-> block.text])
    ELSE IF block.type = "thinking" THEN Some([text |-> block.thinking])
    ELSE IF /\ block.type = "image"
            /\ IsSome(block.source.media_type)
            /\ IsSome(block.source.data)
    THEN Some([inline_data |-> [mime_type |-> Unwrap(block.source.media_type),
                                data |-> Unwrap(block.source.data)]])
    ELSE None

RECURSIVE GeminiParts(_)
\* the parts of the blocks of one message
GeminiParts(blocks) ==
    IF Len(blocks) = 0 THEN <<>>
    ELSE BlockPart(blocks[1]) \o GeminiParts(Tail(blocks))

RECURSIVE GeminiContents(_)
\* the loop over request.messages
GeminiContents(messages) ==
    IF Len(messages) = 0 THEN <<>>
    ELSE LET msg == messages[1]
             parts == IF msg.content.kind = "Text" THEN <<[text |-> msg.content.text]>>
                      ELSE GeminiParts(msg.content.blocks)
         IN  (IF msg.role = "user" THEN <<[role |-> "user", parts |-> parts]>>
              ELSE IF msg.role = "assistant" THEN <<[role |-> "model", parts |-> parts]>>
              ELSE <<>>)
             \o GeminiContents(Tail(messages))

RECURSIVE FunctionDeclarations(_)
\* the filter_map over the tools: one without a name is left out
FunctionDeclarations(tools) ==
    IF Len(tools) = 0 THEN <<>>
    ELSE (IF IsSome(tools[1].name)
          THEN <<[name |-> Unwrap(tools[1].name),
                  description |-> IF IsSome(tools[1].description)
                                  THEN Unwrap(tools[1].description) ELSE <<>>,
                  parameters |-> clean_json_schema(
                                     IF IsSome(tools[1].input_schema)
                                     THEN Unwrap(tools[1].input_schema)
                                     ELSE [kind |-> "scalar", value |-> "null"])]>>
          ELSE <<>>)
         \o FunctionDeclarations(Tail(tools))

transform_request(request) ==
    Ok([contents |-> GeminiContents(request.messages),
        system_instruction |->
            IF IsSome(request.system)
            THEN Some([parts |-> <<[text |->
                         IF Unwrap(request.system).kind = "Text"
                         THEN Unwrap(request.system).text
                         ELSE Join(Unwrap(request.system).blocks, <<"\n">>)]>>])
            ELSE None,
        generation_config |->
            Some([temperature |-> request.temperature,
                  top_p |-> request.top_p,
                  top_k |-> Some(40),
                  max_output_tokens |-> Some(AsI32(request.max_tokens)),
                  stop_sequences |-> request.stop_sequences]),
        tools |-> IF IsSome(request.tools)
                  THEN Some(<<[function_declarations |->
                                  FunctionDeclarations(Unwrap(request.tools))]>>)
                  ELSE None])

\* the canonical requests translated: message lists over a few roles and
\* contents, single messages over lists of blocks of every kind, and single
\* messages with the settings varied (max_tokens from 0 to the largest u32)
TransformRequestInputs ==
    LET Request(messages, system, max_tokens, top_k, tools) ==
            [fn |-> "transform_request",
             request |-> [model |-> RequestModel, messages |-> messages,
                          system |-> system, max_tokens |-> max_tokens,
                          temperature |-> None, top_p |-> None, top_k |-> top_k,
                          stop_sequences |-> None, tools |-> tools]]
        Thinking == [type |-> "thinking", thinking |-> <<"t">>]
        BlockValues ==
            {BlockText(<<"a">>), BlockText(<<"b">>), Thinking,
             BlockImage("base64", Some(ImageText.png), Some(<<"D">>), None),
             BlockImage("base64", Some(ImageText.png), None, None),
             BlockImage("base64", None, Some(<<"D">>), None),
             BlockImage("url", None, None, Some(<<"u">>)),
             [type |-> "tool_use"], [type |-> "tool_result"]}
        BlockLists == UNION {[1..k -> BlockValues] : k \in 0..MaxParts}
        MessageValues ==
            {[role |-> r, content |-> c] :
                r \in {"user", "assistant", "system"},
                c \in {Text(<<"a">>), Blocks(<<Thinking, [type |-> "tool_use"],
                                              BlockText(<<"b">>)>>)}}
        MessageLists == UNION {[1..k -> MessageValues] : k \in 0..MaxMsgs}
        Hello == <<[role |-> "user", content |-> Text(<<"a">>)]>>
        Schema == [kind |-> "object",
                   map |-> [k \in {"$schema", "type"} |-> [kind |-> "scalar", value |-> 1]]]
        ToolLists ==
            {None, Some(<<>>),
             Some(<<[name |-> Some(<<"f">>), description |-> None,
                     input_schema |-> Some(Schema)],
                    [name |-> None, description |-> Some(<<"d">>), input_schema |-> None],
                    [name |-> Some(<<"g">>), description |-> Some(<<"d">>),
                     input_schema |-> None]>>)}
    IN  {Request(ms, None, <<0, 4096>>, None, None) : ms \in MessageLists}
        \cup {Request(<<[role |-> r, content |-> Blocks(bs)]>>, None, <<0, 4096>>, None, None) :
                 r \in {"user", "assistant"}, bs \in BlockLists}
        \cup {Request(Hello, sys, mt, tk, tl) :
                 sys \in {None, Some(Text(<<"s">>)), Some(Blocks(<<<<"s">>, <<"t">>>>))},
                 mt \in {<<0, 0>>, <<0, 4096>>, <<32767, 65535>>, <<32768, 0>>,
                         <<65535, 65535>>},
                 tk \in {None, Some(1), Some(40), Some(100)},
                 tl \in ToolLists}

\* a canonical request is translated for Gemini
TransformRequest ==
    /\ args.fn = "transform_request" /\ ret = NoRet
    /\ ret' = transform_request(args.request)
    /\ UNCHANGED <<args, tokVars, regVars>>

(***************************************************************************)
(* GeminiProvider::transform_response (src/src/providers/gemini.rs).       *)
(***************************************************************************)
\* an i32 cast with `as u32`: negative values come out from 2^31 on
AsU32(n) ==
    IF n >= 0 THEN <<n \div 65536, n % 65536>>
    ELSE <<65535 - ((-(n + 1)) \div 65536), 65535 - ((-(n + 1)) % 65536)>>

\* transform_response taking the last candidate
transform_response_last(response, model, millis) ==
    IF Len(response.candidates) = 0
    THEN ApiError(500, <<"No candidates in response">>)
    ELSE LET candidate == response.candidates[Len(response.candidates)]
             count(field) ==
                 IF /\ IsSome(response.usage_metadata)
                    /\ IsSome(Unwrap(response.usage_metadata)[field])
                 THEN Unwrap(Unwrap(response.usage_metadata)[field])
                 ELSE 0
         IN  Ok([id |-> <<"gemini-", millis>>, type |-> "message", role |-> "assistant",
                 content |-> [i \in 1..Len(candidate.content.parts) |->
                                 IF "text" \in DOMAIN candidate.content.parts[i]
                                 THEN BlockText(candidate.content.parts[i].text)
                                 ELSE BlockText(<<>>)],
                 model |-> model,
                 stop_reason |-> IF candidate.finish_reason = Some("STOP")
                                 THEN Some("end_turn")
                                 ELSE IF candidate.finish_reason = Some("MAX_TOKENS")
                                 THEN Some("max_tokens")
                                 ELSE None,
                 stop_sequence |-> None,
                 usage |-> [input_tokens |-> AsU32(count("prompt_token_count")),
                            output_tokens |-> AsU32(count("candidates_token_count"))]])

\* the canonical response of a parsed Gemini response, at millis milliseconds
\* of the clock
transform_response(response, model, millis) ==
    IF Len(response.candidates) = 0
    THEN ApiError(500, <<"No candidates in response">>)
    ELSE LET candidate == response.candidates[1]
             count(field) ==
                 IF /\ IsSome(response.usage_metadata)
                    /\ IsSome(Unwrap(response.usage_metadata)[field])
                 THEN Unwrap(Unwrap(response.usage_metadata)[field])
                 ELSE 0
         IN  Ok([id |-> <<"gemini-", millis>>, type |-> "message", role |-> "assistant",
                 content |-> [i \in 1..Len(candidate.content.parts) |->
                                 IF "text" \in DOMAIN candidate.content.parts[i]
                                 THEN BlockText(candidate.content.parts[i].text)
                                 ELSE BlockText(<<>>)],
                 model |-> model,
                 stop_reason |-> IF candidate.finish_reason = Some("STOP")
                                 THEN Some("end_turn")
                                 ELSE IF candidate.finish_reason = Some("MAX_TOKENS")
                                 THEN Some("max_tokens")
                                 ELSE None,
                 stop_sequence |-> None,
                 usage |-> [input_tokens |-> AsU32(count("prompt_token_count")),
                            output_tokens |-> AsU32(count("candidates_token_count"))]])

\* the Gemini responses translated: up to two candidates over lists of text
\* and inline_data parts, every finish reason, and usage metadata absent,
\* empty, and with counts from the smallest to the largest i32
TransformResponseInputs ==
    LET PartValues ==
            {[text |-> <<"a">>], [text |-> <<>>],
             [inline_data |-> [mime_type |-> ImageText.png, data |-> <<"D">>]]}
        PartLists == UNION {[1..k -> PartValues] : k \in 0..MaxParts}
        Candidates ==
            {[content |-> [role |-> "model", parts |-> ps], finish_reason |-> fr] :
                ps \in PartLists,
                fr \in {None, Some("STOP"), Some("MAX_TOKENS"), Some("SAFETY"), Some("stop")}}
        Other == [content |-> [role |-> "model", parts |-> <<[text |-> <<"z">>]>>],
                  finish_reason |-> Some("MAX_TOKENS")]
        Counts == {None, Some(0), Some(7), Some(2147483647), Some(-1), Some(-2147483647 - 1)}
        Usages ==
            {None} \cup {Some([prompt_token_count |-> p, candidates_token_count |-> c,
                               total_token_count |-> None]) : p \in Counts, c \in Counts}
    IN  {[fn |-> "transform_response", model |-> RequestModel, millis |-> 1700000000,
          response |-> [candidates |-> cs, usage_metadata |-> u]] :
            cs \in {<<>>} \cup {<<c>> : c \in Candidates}
                   \cup {<<c, Other>> : c \in Candidates},
            u \in Usages}

\* a parsed Gemini response is translated
TransformResponse ==
    /\ args.fn = "transform_response" /\ ret = NoRet
    /\ ret' = transform_response(args.response, args.model, args.millis)
    /\ UNCHANGED <<args, tokVars, regVars>>

FnInputs ==
    SendMessageInputs \cup GenerateInputs \cup GetAuthorizationUrlInputs
        \cup TransformOpenAIInputs \cup TransformAnthropicInputs \cup CleanJsonSchemaInputs \cup TransformRequestInputs \cup TransformResponseInputs

InitFn ==
    /\ args \in FnInputs
    /\ ret = NoRet
    /\ TokIdle
    /\ RegIdle

NextFn ==
    \/ SendMessageResponse
    \/ Generate
    \/ GetAuthorizationUrl
    \/ TransformOpenAIToAnthropic
    \/ TransformAnthropicToOpenAI
    \/ CleanJsonSchema
    \/ TransformRequest
    \/ TransformResponse

SpecFn == InitFn /\ [][NextFn]_vars

(***************************************************************************)
(* The login model: one exchange_code call against the token store.  args  *)
(* holds the arguments and the store as it was before the call; ret holds  *)
(* the request sent, then the response, then the result.                   *)
(***************************************************************************)
\* auth_code cut at the last '#' instead of the first
AuthCodeLastHash(code) ==
    IF Contains(code, <<"#">>)
    THEN SubSeq(code, 1, (CHOOSE i \in 1..Len(code) :
                             code[i] = "#" /\ \A j \in (i + 1)..Len(code) : code[j] # "#") - 1)
    ELSE code

\* exchange_code: code.split('#').next() when the code has a '#'
AuthCode(code) ==
    IF Contains(code, <<"#">>) THEN SubSeq(code, 1, Find(code, "#") - 1) ELSE code

\* exchange_code: the request posted to token_url, form-encoded for Codex and
\* JSON for the other dialect
ExchangeRequest(config, auth_code, verifier) ==
    IF config.client_id = CodexClientId
    THEN [encoding |-> "form", code |-> auth_code, code_verifier |-> verifier,
          grant_type |-> "authorization_code", client_id |-> config.client_id,
          redirect_uri |-> config.redirect_uri]
    ELSE [encoding |-> "json", code |-> auth_code, state |-> verifier,
          code_verifier |-> verifier, grant_type |-> "authorization_code",
          client_id |-> config.client_id, redirect_uri |-> config.redirect_uri]

\* exchange_code: the token built from a 2xx, parseable response
ExchangedToken(provider_id, token_response, t) ==
    [provider_id    |-> provider_id,
     access_token   |-> token_response.access_token,
     refresh_token  |-> token_response.refresh_token,
     expires_at     |-> t + token_response.expires_in,
     enterprise_url |-> None,
     project_id     |-> None]

\* the error exchange_code returns for a response, "" when it is 2xx and parses
ExchangeError(token_response) ==
    CASE token_response.tag = "transport" -> "Failed to exchange code for token"
      [] token_response.tag = "status"    -> "Token exchange failed"
      [] token_response.tag = "body"      -> "Failed to parse token response"
      [] OTHER                            -> ""

\* the store and the arguments of the call: the codes are bare, followed by
\* #state, with several '#', starting with '#', and empty
InitLogin ==
    /\ store \in [ProviderIds -> {None} \cup UNION {{Some(t) : t \in InitTokens(id)} : id \in ProviderIds}]
    /\ \A id \in ProviderIds : IsSome(store[id]) => Unwrap(store[id]).provider_id = id
    /\ args \in {[fn |-> "exchange_code", config |-> c, code |-> code,
                  verifier |-> Base64UrlNoPad(RfcRandomBytes), provider_id |-> id,
                  store |-> store] :
                    c \in {OAuthConfigAnthropic, OAuthConfigOpenAICodex},
                    code \in {<<"a", "b", "c">>, <<"a", "b", "c", "#", "s", "t">>,
                              <<"a", "#", "b", "#", "c">>, <<"#", "x">>, <<>>},
                    id \in ProviderIds}
    /\ ret = NoRet
    /\ writes = [id \in ProviderIds |-> 0]
    /\ now = 0
    /\ pc = [p \in Procs |-> "idle"]
    /\ call = [p \in Procs |-> EmptyCall]
    /\ issued = [id \in ProviderIds |-> 0]
    /\ budget = [env |-> 0]
    /\ RegIdle

\* exchange_code: cut the code and post the request
ExchangeSend ==
    /\ args.fn = "exchange_code" /\ ret = NoRet
    /\ ret' = [tag |-> "sent",
               request |-> ExchangeRequest(args.config, AuthCode(args.code), args.verifier)]
    /\ UNCHANGED <<args, tokVars, regVars>>

\* the token endpoint answers the exchange
ExchangeEndpoint ==
    /\ ret.tag = "sent"
    /\ \E r \in {[tag |-> "ok", status |-> 200, access_token |-> 1, refresh_token |-> 2,
                 expires_in |-> e] : e \in ExpiresIn}
               \cup {[tag |-> "status", status |-> st] : st \in {400, 500}}
               \cup {[tag |-> "body", status |-> 200], [tag |-> "transport"]} :
         ret' = [tag |-> "answered", request |-> ret.request, response |-> r]
    /\ UNCHANGED <<args, tokVars, regVars>>

\* exchange_code: handle the response, save the token, return
ExchangeRecv ==
    /\ ret.tag = "answered"
    /\ LET err == ExchangeError(ret.response) IN
       IF err # ""
       THEN /\ ret' = [tag |-> "Err", error |-> err, request |-> ret.request,
                       response |-> ret.response, at |-> now]
            /\ UNCHANGED <<store, writes>>
       ELSE LET token == ExchangedToken(args.provider_id, ret.response, now) IN
            /\ store' = StoreSave(store, token)
            /\ writes' = [writes EXCEPT ![args.provider_id] = @ + 1]
            /\ ret' = [tag |-> "Ok", value |-> token, request |-> ret.request,
                       response |-> ret.response, at |-> now]
    /\ UNCHANGED <<args, now, pc, call, issued, budget, regVars>>

NextLogin ==
    \/ ExchangeSend
    \/ ExchangeEndpoint
    \/ ExchangeRecv
    \/ Tick

SpecLogin == InitLogin /\ [][NextLogin]_vars

(***************************************************************************)
(* Claims about the token lifecycle, checked under Spec.                   *)
(***************************************************************************)
\* the processes with a refresh request for provider id on the wire
InFlight(id) ==
    {p \in Procs : pc[p] \in {"rt_wait", "rt_resp"} /\ call[p].provider_id = id}

\* the processes inside refresh_token for provider id
Refreshing(id) ==
    {p \in Procs : pc[p] \in {"rt_load", "rt_wait", "rt_resp"} /\ call[p].provider_id = id}

\* whether the token the call loaded needed refresh when it was loaded
StaleAtLoad(c) == IsSome(c.token) /\ needs_refresh(Unwrap(c.token), c.loaded_at)

\* C1: concurrent calls for one provider_id never have two refresh requests
\* out at the token endpoint at once (single-flight).
C1_SingleFlight ==
    \A id \in ProviderIds : Cardinality(InFlight(id)) <= 1

AuthFailed(p) ==
    \/ call[p].rt_error # ""
    \/ pc[p] \notin {"idle", "gah_load"} /\ call[p].token = None

\* C4: a Gemini OAuth send_message sends at most one refresh request; when
\* the refresh fails or no token is stored it ends with AuthError and has
\* sent no generateContent request.
C4_AuthErrorNoCall ==
    \A p \in Procs :
        call[p].op = "send_message" =>
            /\ call[p].refreshes <= 1
            /\ AuthFailed(p) =>
                 /\ pc[p] = "done"
                 /\ call[p].result = [tag |-> "AuthError"]
                 /\ call[p].http = 0

\* a send_message whose refresh request was sent and failed
C4_Witness ==
    \E p \in Procs :
        /\ call[p].op = "send_message" /\ pc[p] = "done"
        /\ call[p].refreshes = 1 /\ call[p].rt_error # ""
        /\ call[p].result = [tag |-> "AuthError"]

\* the control points at which a request is about to read the token store
ReadPoints == {"gvt_load", "gah_load", "rt_load", "sm_project"}

\* C5: once refresh_token has returned Ok in request a, a store read that
\* another request b starts for the same provider_id does not return the
\* token a refreshed from; it returns a's refreshed token or the result of
\* a later write to the store.
C5_RefreshVisible ==
    \A a, b \in Procs :
        (/\ a # b
         /\ IsSome(call[a].refreshed)
         /\ pc[b] \in ReadPoints
         /\ call[b].provider_id = call[a].provider_id) =>
            LET id == call[a].provider_id
                seen == StoreGet(store, id)
            IN  /\ seen # call[a].existing_token
                /\ seen = call[a].refreshed \/ writes[id] > call[a].saved_ver

\* request b is about to read the store after request a's refresh returned Ok,
\* and the store holds a's refreshed token
C5_Witness ==
    \E a, b \in Procs :
        /\ a # b
        /\ IsSome(call[a].refreshed) /\ pc[a] = "done"
        /\ pc[b] \in ReadPoints
        /\ call[b].provider_id = call[a].provider_id
        /\ store[call[a].provider_id] = call[a].refreshed

\* C6: when every refresh for a provider_id has finished, the stored token is
\* the one of the response the token endpoint issued last.
C6_NoLostUpdate ==
    \A id \in ProviderIds :
        (Refreshing(id) = {} /\ issued[id] > 0 /\ IsSome(store[id])) =>
            Unwrap(store[id]).access_token = issued[id]

\* C7: a refresh keeps enterprise_url and project_id of the token it
\* refreshes, and every stored token carries the enterprise_url and the
\* project_id the store held at the start.
C7_RefreshPreserves ==
    /\ \A p \in Procs :
         IsSome(call[p].refreshed) =>
            /\ Unwrap(call[p].refreshed).enterprise_url
                   = Unwrap(call[p].existing_token).enterprise_url
            /\ Unwrap(call[p].refreshed).project_id
                   = Unwrap(call[p].existing_token).project_id
    /\ \A id \in ProviderIds :
         IsSome(store[id]) =>
            /\ Unwrap(store[id]).enterprise_url = Some("ent")
            /\ Unwrap(store[id]).project_id = Some("proj")

\* whether the request has handed out, or put in its bearer header, the
\* access token it loaded
UsesLoadedToken(p) ==
    LET c == call[p] IN
    /\ IsSome(c.token)
    /\ c.refreshed = None
    /\ \/ c.result = [tag |-> "Ok", access_token |-> Unwrap(c.token).access_token]
       \/ c.bearer = Some(Unwrap(c.token).access_token)

\* whether the request has entered refresh_token
AttemptedRefresh(p) ==
    \/ pc[p] \in {"rt_load", "rt_wait", "rt_resp"}
    \/ call[p].refreshes > 0
    \/ call[p].rt_error # ""

\* C13: a token needs refresh exactly when now + 60 >= expires_at (one
\* expiring in 30s or in exactly 60s or already expired does, one expiring
\* in 3600s does not); a request whose loaded token expires within 60s of
\* the load enters refresh_token, and a request that uses the loaded access
\* token loaded it more than 60s before its expiry.
C13_SafetyMargin ==
    /\ \A id \in ProviderIds :
          IsSome(store[id]) =>
             LET left == Unwrap(store[id]).expires_at - now IN
             /\ needs_refresh(Unwrap(store[id]), now) <=> left <= 60
             /\ left \in {30, 60} \/ left <= 0 => needs_refresh(Unwrap(store[id]), now)
             /\ left = 3600 => ~needs_refresh(Unwrap(store[id]), now)
    /\ \A p \in Procs :
          LET c == call[p] IN
          /\ (pc[p] \notin {"idle", "gvt_load", "gah_load"} /\ IsSome(c.token)
                /\ Unwrap(c.token).expires_at - c.loaded_at <= 60) =>
                 AttemptedRefresh(p) /\ ~UsesLoadedToken(p)
          /\ UsesLoadedToken(p) =>
                 Unwrap(c.token).expires_at - c.loaded_at > 60

\* a request loaded a token expiring in exactly 60s and sent a refresh
\* request, while another used a token it loaded 3600s before its expiry
C13_Witness ==
    \E p, q \in Procs :
        /\ IsSome(call[p].token)
        /\ Unwrap(call[p].token).expires_at = call[p].loaded_at + 60
        /\ call[p].refreshes = 1
        /\ UsesLoadedToken(q)
        /\ Unwrap(call[q].token).expires_at = call[q].loaded_at + 3600

(***************************************************************************)
(* Claims about the registry, checked under SpecReg.                       *)
(***************************************************************************)
FromConfigsDone == registry.status # "none" /\ registry.via = "from_configs"
FromConfigsFailed == FromConfigsDone /\ registry.status = "err"

EnabledConfigs == {i \in 1..Len(configs) : configs[i].enabled}

\* the list without its disabled entries
EnabledOnly == SelectSeq(configs, LAMBDA c : c.enabled)

\* C3: get_provider_for_model(m) returns a registered provider that supports
\* m (for a Gemini provider: m is in its model list) or fails with
\* ModelNotSupported; it fails only when no registered provider supports m,
\* and always on an empty registry.
C3_LookupSupports ==
    lookup.op = "get_provider_for_model" =>
        LET m == lookup.model
            r == lookup.result
            supporters == {n \in DOMAIN registry.providers :
                              supports_model(registry.providers[n], m)}
        IN  /\ r.tag = "Ok" =>
                 /\ \E n \in supporters : registry.providers[n] = r.value
                 /\ supports_model(r.value, m)
                 /\ r.value.kind = "Gemini" =>
                        \E i \in 1..Len(r.value.models) : r.value.models[i] = m
            /\ r.tag = "Err" => r = ModelNotSupported /\ supporters = {}
            /\ DOMAIN registry.providers = {} => r = ModelNotSupported

\* a lookup that succeeded in a registry holding a provider that supports the
\* model and one that does not
C3_Witness ==
    /\ lookup.op = "get_provider_for_model"
    /\ lookup.result.tag = "Ok"
    /\ \E n \in DOMAIN registry.providers :
          ~supports_model(registry.providers[n], lookup.model)

\* C8: from_configs fails with ConfigError whenever an enabled entry has a
\* provider_type outside the known tags; disabled entries never matter: a
\* failure is due to an enabled entry, and the outcome is that of the list
\* without its disabled entries.
C8_UnknownTypeFails ==
    FromConfigsDone =>
        /\ (\E i \in EnabledConfigs : configs[i].provider_type \notin KnownTypes) =>
               /\ registry.status = "err"
               /\ registry.error = "ConfigError"
               /\ DOMAIN registry = {"status", "error", "via", "token_store", "order"}
        /\ registry.status = "err" =>
               \E i \in EnabledConfigs :
                   \/ configs[i].provider_type \notin KnownTypes
                   \/ configs[i].auth_type = "ApiKey" /\ configs[i].api_key = None
        /\ registry = Built([via |-> "from_configs", order |-> registry.order,
                             token_store |-> registry.token_store],
                            from_configs(EnabledOnly, registry.token_store))

\* from_configs failed on a list whose only enabled entry has an unknown
\* provider_type and a key, after a disabled entry with an unknown type
C8_Witness ==
    /\ FromConfigsFailed
    /\ Len(configs) = 2
    /\ ~configs[1].enabled /\ configs[1].provider_type \notin KnownTypes
    /\ configs[2].enabled /\ configs[2].provider_type \notin KnownTypes
    /\ IsSome(configs[2].api_key)

\* C9: from_configs fails with ConfigError when an enabled ApiKey entry has
\* no api_key or an empty one; an enabled OAuth entry gets oauth_provider, or
\* else its name, as its key and is never refused for its api_key.
C9_ApiKeyRequired ==
    FromConfigsDone =>
        /\ (\E i \in EnabledConfigs :
               /\ configs[i].auth_type = "ApiKey"
               /\ configs[i].api_key \in {None, Some("")}) =>
                  registry.status = "err" /\ registry.error = "ConfigError"
        /\ \A i \in EnabledConfigs :
               configs[i].auth_type = "OAuth" =>
                  ApiKeySlot(configs[i]) =
                     Ok(IF IsSome(configs[i].oauth_provider)
                        THEN Unwrap(configs[i].oauth_provider) ELSE configs[i].name)

\* C10: from_configs accepts an enabled vertex-ai entry only with both
\* project_id and location.
C10_VertexRequiresProject ==
    (FromConfigsDone /\ registry.status = "ok") =>
        \A i \in EnabledConfigs :
            configs[i].provider_type = "vertex-ai" =>
                IsSome(configs[i].project_id) /\ IsSome(configs[i].location)

\* the provider from_configs builds from one enabled, accepted entry
ProviderOf(config) ==
    BuildProvider(config, ApiKeySlot(config).value, registry.token_store).value

\* the last enabled entry named n
LastEnabled(n) ==
    CHOOSE i \in EnabledConfigs :
        /\ configs[i].name = n
        /\ \A j \in EnabledConfigs : configs[j].name = n => j <= i

\* C11: after a successful from_configs the registered names are exactly the
\* names of the enabled entries: get_provider(n) is present iff an enabled
\* entry is named n, list_providers is that set without repetition, and the
\* provider held for a name is the one built from the last enabled entry of
\* that name.
C11_EnabledNamesUnique ==
    (FromConfigsDone /\ registry.status = "ok") =>
        LET enabled == {configs[i].name : i \in EnabledConfigs} IN
        /\ DOMAIN registry.providers = enabled
        /\ \A n \in enabled :
               registry.providers[n] = ProviderOf(configs[LastEnabled(n)])
        /\ lookup.op = "get_provider" =>
               /\ IsSome(lookup.result) <=> lookup.name \in enabled
               /\ IsSome(lookup.result) =>
                     Unwrap(lookup.result) = ProviderOf(configs[LastEnabled(lookup.name)])
        /\ lookup.op = "list_providers" =>
               /\ {lookup.result[i] : i \in DOMAIN lookup.result} = enabled
               /\ Len(lookup.result) = Cardinality(enabled)

\* get_provider found the provider of the second of two enabled entries that
\* share a name and build different providers
C11_Witness ==
    /\ FromConfigsDone /\ registry.status = "ok"
    /\ Len(configs) = 2
    /\ configs[1].enabled /\ configs[2].enabled
    /\ configs[1].name = configs[2].name
    /\ ProviderOf(configs[1]) # ProviderOf(configs[2])
    /\ lookup.op = "get_provider"
    /\ lookup.result = Some(ProviderOf(configs[2]))

(***************************************************************************)
(* Claims about single functions, checked under SpecFn.                    *)
(***************************************************************************)
Applied(fn) == args.fn = fn /\ ret # NoRet

\* C12: a non-2xx upstream response makes send_message return ApiError with
\* that status; the message is the body as read ("Unknown error" when it
\* could not be read), except for a 404 on the Code Assist path, whose
\* message carries the model name and that text and has the preview hint
\* iff the model name contains "gemini-3" or "preview".
C12_ApiErrorStatus ==
    (Applied("send_message_response") /\ ~(args.status \in 200..299)) =>
        LET text == IF IsSome(args.body) THEN Unwrap(args.body) ELSE <<"Unknown error">>
            named == Contains(args.model, S_gemini3) \/ Contains(args.model, S_preview)
        IN  /\ ret.tag = "ApiError"
            /\ ret.status = args.status
            /\ ~(args.oauth /\ args.status = 404) => ret.message = text
            /\ (args.oauth /\ args.status = 404) =>
                  /\ Contains(ret.message, args.model)
                  /\ SubSeq(ret.message, Len(ret.message) - Len(text) + 1, Len(ret.message)) = text
                  /\ Contains(ret.message, PreviewHint) <=> named
                  /\ ~named => ret.message =
                        <<"Model '">> \o args.model \o <<"' not found. Original error: ">> \o text

\* a 404 on the Code Assist path for a preview model, answered with the hint
C12_Witness ==
    /\ Applied("send_message_response")
    /\ args.oauth /\ args.status = 404 /\ args.body = Some(<<"e", "r", "r">>)
    /\ Contains(args.model, S_preview)
    /\ ret.tag = "ApiError" /\ ret.status = 404
    /\ Contains(ret.message, PreviewHint)

RfcVerifier == <<
    "d", "B", "j", "f", "t", "J", "e", "Z", "4", "C", "V", "P", "-", "m", "B", "9",
    "2", "K", "2", "7", "u", "h", "b", "U", "J", "U", "1", "p", "1", "r", "_", "w",
    "W", "1", "g", "F", "W", "F", "O", "E", "j", "X", "k" >>
RfcChallenge == <<
    "E", "9", "M", "e", "l", "h", "o", "a", "2", "O", "w", "v", "F", "r", "E", "M",
    "T", "J", "g", "u", "C", "H", "a", "o", "e", "K", "1", "t", "8", "U", "R", "W",
    "b", "u", "G", "J", "S", "s", "t", "w", "-", "c", "M" >>

\* C16: a generated PKCE pair has verifier = base64url-no-pad(the 32 random
\* bytes) and challenge = base64url-no-pad(SHA-256(the verifier's bytes)):
\* both are 43 characters of the URL-safe alphabet with no '=' padding, they
\* decode to the random bytes and to the digest of the verifier string, and
\* the sample of RFC 7636 gives its published verifier and challenge.
C16_PkceRoundTrip ==
    Applied("generate") =>
        LET alphabet == {UrlSafeAlphabet[i] : i \in 1..64} IN
        /\ Len(ret.verifier) = 43 /\ Len(ret.challenge) = 43
        /\ \A i \in 1..43 : ret.verifier[i] \in alphabet /\ ret.challenge[i] \in alphabet
        /\ ~Contains(ret.verifier, <<"=">>) /\ ~Contains(ret.challenge, <<"=">>)
        /\ Base64UrlDecode(ret.verifier) = args.random_bytes
        /\ Base64UrlDecode(ret.challenge) = Sha256(AsBytes(ret.verifier))
        /\ ret.challenge = Base64UrlNoPad(Sha256(AsBytes(ret.verifier)))
        /\ args.random_bytes = RfcRandomBytes =>
              ret.verifier = RfcVerifier /\ ret.challenge = RfcChallenge

\* the pair generated from the octets of the RFC 7636 sample
C16_Witness ==
    /\ Applied("generate")
    /\ args.random_bytes = RfcRandomBytes
    /\ ret.challenge = RfcChallenge

\* the query of a URL: what follows its first '?'
QueryOf(url) == SubSeq(url, Find(url, "?") + 1, Len(url))

\* the name=value pairs of a URL, as <<name, value>>
QueryPairs(url) ==
    LET q == QueryOf(url)
        cuts == {0, Len(q) + 1} \cup {i \in 1..Len(q) : q[i] = "&"}
        segs == {SubSeq(q, x[1] + 1, x[2] - 1) : x \in {y \in cuts \X cuts : y[1] < y[2]}}
    IN  {<<SubSeq(g, 1, Find(g, "=") - 1), SubSeq(g, Find(g, "=") + 1, Len(g))>> :
            g \in {h \in segs : ~Contains(h, <<"&">>) /\ Find(h, "=") > 0}}

\* the values the URL carries for a parameter name
ParamValues(url, name) == {pr[2] : pr \in {x \in QueryPairs(url) : x[1] = name}}

\* C14: the URL of get_authorization_url follows the dialect of the
\* client_id.  For the Codex client_id it carries originator=codex_cli_rs,
\* codex_cli_simplified_flow=true, code_challenge_method=S256 and a state of
\* 32 lowercase hex characters made from the state bytes alone, and no code
\* parameter; for any other client_id it carries code=true,
\* code_challenge_method=S256 and the returned verifier as state.  In both
\* the code_challenge is the challenge of the returned verifier.
C14_AuthorizationUrl ==
    Applied("get_authorization_url") =>
        LET url == ret.url
            pkce == ret.verifier
            codex == args.config.client_id = CodexClientId
        IN  /\ ParamValues(url, QueryText.code_challenge_method) = {QueryText.S256}
            /\ ParamValues(url, QueryText.code_challenge) = {pkce.challenge}
            /\ pkce.challenge = Base64UrlNoPad(Sha256(AsBytes(pkce.verifier)))
            /\ pkce.verifier = Base64UrlNoPad(args.random_bytes)
            /\ codex =>
                 /\ ParamValues(url, QueryText.originator) = {QueryText.codex_cli_rs}
                 /\ ParamValues(url, QueryText.codex_cli_simplified_flow) = {QueryText.true}
                 /\ ParamValues(url, QueryText.state) = {HexLower(args.state_bytes)}
                 /\ \A st \in ParamValues(url, QueryText.state) :
                       /\ Len(st) = 32
                       /\ \A i \in 1..32 : st[i] \in {"0", "1", "2", "3", "4", "5", "6", "7",
                                                     "8", "9", "a", "b", "c", "d", "e", "f"}
                       /\ st # pkce.verifier
                 /\ ParamValues(url, QueryText.code) = {}
                 /\ ~Contains(url, QueryText.code \o <<"=">> \o QueryText.true)
            /\ ~codex =>
                 /\ ParamValues(url, QueryText.code) = {QueryText.true}
                 /\ ParamValues(url, QueryText.state) = {pkce.verifier}
                 /\ ParamValues(url, QueryText.originator) = {}

\* a Codex URL whose state has letters among its hex digits, and which is
\* built from the octets of the RFC 7636 sample
C14_Witness ==
    /\ Applied("get_authorization_url")
    /\ args.config = OAuthConfigOpenAICodex
    /\ args.random_bytes = RfcRandomBytes
    /\ ParamValues(ret.url, QueryText.code_challenge) = {RfcChallenge}
    /\ \E st \in ParamValues(ret.url, QueryText.state) : Contains(st, <<"f", "f">>)

InboundMessages == args.openai_req.messages
SystemMessages == SelectSeq(InboundMessages, LAMBDA msg : msg.role = "system")
ChatMessages == SelectSeq(InboundMessages, LAMBDA msg : msg.role \in {"user", "assistant"})

\* C17: when the request has more than one system message (each with a
\* content), the canonical system prompt is the texts of all of them, in
\* order, joined with "\n": none is lost.
C17_SystemConcat ==
    (/\ Applied("transform_openai_to_anthropic")
     /\ Len(SystemMessages) > 1
     /\ \A i \in 1..Len(SystemMessages) : IsSome(SystemMessages[i].content))
    => /\ ret.tag = "Ok"
       /\ ret.value.system =
            Some(Join([i \in 1..Len(SystemMessages) |->
                          SystemText(Unwrap(SystemMessages[i].content))], <<"\n">>))

\* C18: the translation never fails; its messages are the user and
\* assistant messages of the request, one for one, in the same order and
\* with the same role (a string content becoming that Text); messages of
\* any other role produce none.
C18_OneMessagePerTurn ==
    Applied("transform_openai_to_anthropic")
    => /\ ret.tag = "Ok"
       /\ Len(ret.value.messages) = Len(ChatMessages)
       /\ \A k \in 1..Len(ChatMessages) :
            /\ ret.value.messages[k].role = ChatMessages[k].role
            /\ ret.value.messages[k].role \in {"user", "assistant"}
            /\ (/\ IsSome(ChatMessages[k].content)
                /\ Unwrap(ChatMessages[k].content).kind = "String")
               => ret.value.messages[k].content = Text(Unwrap(ChatMessages[k].content).text)

\* a request with a tool message between a user and an assistant message has
\* been translated to two messages
C18_Witness ==
    /\ Applied("transform_openai_to_anthropic")
    /\ Len(InboundMessages) = 3
    /\ InboundMessages[1].role = "user"
    /\ InboundMessages[2].role = "tool"
    /\ InboundMessages[3].role = "assistant"
    /\ Len(ret.value.messages) = 2

\* the request is one user or assistant message with an array content
PartsCase ==
    /\ Applied("transform_openai_to_anthropic")
    /\ Len(InboundMessages) = 1
    /\ InboundMessages[1].role \in {"user", "assistant"}
    /\ IsSome(InboundMessages[1].content)
    /\ Unwrap(InboundMessages[1].content).kind = "Parts"
InboundParts == Unwrap(InboundMessages[1].content).parts

\* the first of image/jpeg, image/png, image/gif, image/webp occurring in the
\* prefix, image/png when none does
FirstListed(prefix) ==
    LET listed == <<ImageText.jpeg, ImageText.png, ImageText.gif, ImageText.webp>>
        hits == {i \in 1..4 : Contains(prefix, listed[i])}
    IN  IF hits = {} THEN ImageText.png
        ELSE listed[CHOOSE i \in hits : \A j \in hits : i <= j]

\* a data: URL that has no ','
NoComma(part) ==
    part.type = "image_url" /\ StartsWith(part.url, ImageText.data) /\ ~Contains(part.url, <<",">>)

\* block is what the part becomes
BlockOf(part, block) ==
    IF part.type = "text" THEN block = BlockText(part.text)
    ELSE IF StartsWith(part.url, ImageText.data)
    THEN /\ block.type = "image"
         /\ block.source.type = "base64"
         /\ \A k \in 1..Len(part.url) :
              (part.url[k] = "," /\ \A j \in 1..(k - 1) : part.url[j] # ",")
              => /\ block.source.data = Some(SubSeq(part.url, k + 1, Len(part.url)))
                 /\ block.source.media_type = Some(FirstListed(SubSeq(part.url, 1, k - 1)))
    ELSE /\ block.type = "image"
         /\ block.source.type = "url"
         /\ block.source.url = Some(part.url)

\* the content is the blocks of these parts, in order, Text("") when there
\* are none
ContentOf(parts, content) ==
    IF Len(parts) = 0 THEN content = Text(<<>>)
    ELSE /\ content.kind = "Blocks"
         /\ Len(content.blocks) = Len(parts)
         /\ \A i \in 1..Len(parts) : BlockOf(parts[i], content.blocks[i])

\* C19 as stated: every part of an array content becomes a block (a text
\* part a Text block, a data: URL a base64 Image block, any other URL an
\* Image block of kind "url"), in part order.
C19_Original ==
    PartsCase => ContentOf(InboundParts, ret.value.messages[1].content)

\* C19: every part of an array content becomes a block, in part order,
\* except a data: URL with no ',', which yields none: a text part a Text
\* block; a data: URL a base64 Image block whose data is what follows the
\* first ',' and whose media_type is the first of image/jpeg, image/png,
\* image/gif, image/webp occurring before it, image/png by default; any other
\* URL an Image block of kind "url" with that URL.  Parts yielding no block
\* at all give Text("").
C19_ContentParts ==
    PartsCase => ContentOf(SelectSeq(InboundParts, LAMBDA part : ~NoComma(part)),
                           ret.value.messages[1].content)

\* a data: URL without ',' followed by one naming image/png before
\* image/jpeg has been translated to a single image/jpeg block
C19_Witness ==
    /\ PartsCase
    /\ Len(InboundParts) = 2
    /\ NoComma(InboundParts[1])
    /\ InboundParts[2].type = "image_url"
    /\ MediaTypePositional(InboundParts[2].url) = ImageText.png
    /\ ret.value.messages[1].content.kind = "Blocks"
    /\ Len(ret.value.messages[1].content.blocks) = 1
    /\ ret.value.messages[1].content.blocks[1].source.media_type = Some(ImageText.jpeg)

(***************************************************************************)
(* Claims about the translation of a provider response, checked under      *)
(* SpecFn.                                                                 *)
(***************************************************************************)
\* C20: for every pair of u32 counters the translation succeeds with
\* prompt_tokens = input_tokens, completion_tokens = output_tokens and
\* total_tokens their exact sum, with no wrap-around and no failure when the
\* sum exceeds 2^32 - 1.
C20_UsageExactSum ==
    Applied("transform_anthropic_to_openai")
    => LET usage == args.anthropic_resp.usage
           lo == usage.input_tokens[2] + usage.output_tokens[2]
           hi == usage.input_tokens[1] + usage.output_tokens[1] + (lo \div 65536)
       IN  /\ ret.tag = "Ok"
           /\ ret.value.usage.prompt_tokens = usage.input_tokens
           /\ ret.value.usage.completion_tokens = usage.output_tokens
           /\ hi < 65536
           /\ ret.value.usage.total_tokens = <<hi, lo % 65536>>

(***************************************************************************)
(* Claims about the Gemini translations, checked under SpecFn.             *)
(***************************************************************************)
RECURSIVE HasForbiddenKey(_)
\* some object inside the value has a removed key
HasForbiddenKey(value) ==
    IF value.kind = "object"
    THEN \/ DOMAIN value.map \cap ForbiddenKeys # {}
         \/ \E k \in DOMAIN value.map : HasForbiddenKey(value.map[k])
    ELSE IF value.kind = "array"
    THEN \E i \in 1..Len(value.items) : HasForbiddenKey(value.items[i])
    ELSE FALSE

RECURSIVE Preserved(_, _)
\* cleaned is value with the removed keys, and what lies under them, taken
\* out of every object, and nothing else changed
Preserved(value, cleaned) ==
    /\ cleaned.kind = value.kind
    /\ value.kind = "scalar" => cleaned = value
    /\ value.kind = "array" =>
         /\ Len(cleaned.items) = Len(value.items)
         /\ \A i \in 1..Len(value.items) : Preserved(value.items[i], cleaned.items[i])
    /\ value.kind = "object" =>
         /\ DOMAIN cleaned.map = DOMAIN value.map \ ForbiddenKeys
         /\ \A k \in DOMAIN cleaned.map : Preserved(value.map[k], cleaned.map[k])

\* C21: the cleaned value has no removed key at any depth, a second pass
\* leaves it as it is, and every other key, scalar and array element not
\* under a removed key is kept unchanged.
C21_CleanJsonSchema ==
    Applied("clean_json_schema")
    => /\ ~HasForbiddenKey(ret.value)
       /\ clean_json_schema(ret.value) = ret.value
       /\ Preserved(args.value, ret.value)

\* an object with a removed key inside an array inside an object has been
\* cleaned, the array keeping its other element
C21_Witness ==
    /\ Applied("clean_json_schema")
    /\ args.value.kind = "object"
    /\ "type" \in DOMAIN args.value.map
    /\ args.value.map["type"].kind = "array"
    /\ Len(args.value.map["type"].items) = 2
    /\ args.value.map["type"].items[1].kind = "object"
    /\ "$ref" \in DOMAIN args.value.map["type"].items[1].map
    /\ ret.value.map["type"].items[1].map = <<>>
    /\ ret.value.map["type"].items[2] = args.value.map["type"].items[2]

\* the messages of the request that have role user or assistant
GeminiTurns ==
    SelectSeq(args.request.messages, LAMBDA msg : msg.role \in {"user", "assistant"})

\* the blocks that give a part: Text, Thinking, and an Image with both
\* media_type and data
GivesPart(block) ==
    \/ block.type \in {"text", "thinking"}
    \/ /\ block.type = "image"
       /\ block.source.media_type # None
       /\ block.source.data # None

\* C22: the contents are the user and assistant messages, one for one and in
\* order, as "user" and "model"; a Text content is one text part; of a list
\* of blocks, Text and Thinking give a text part with their text, an Image
\* with both media_type and data gives inline_data, and every other block
\* gives no part, the parts keeping the order of their blocks.
C22_GeminiContents ==
    Applied("transform_request")
    => /\ ret.tag = "Ok"
       /\ Len(ret.value.contents) = Len(GeminiTurns)
       /\ \A k \in 1..Len(GeminiTurns) :
            LET msg == GeminiTurns[k]
                out == ret.value.contents[k]
            IN  /\ out.role = IF msg.role = "user" THEN "user" ELSE "model"
                /\ msg.content.kind = "Text" => out.parts = <<[text |-> msg.content.text]>>
                /\ msg.content.kind = "Blocks" =>
                     LET kept == SelectSeq(msg.content.blocks, GivesPart)
                     IN  /\ Len(out.parts) = Len(kept)
                         /\ \A i \in 1..Len(kept) :
                              IF kept[i].type = "image"
                              THEN out.parts[i] =
                                     [inline_data |->
                                        [mime_type |-> kept[i].source.media_type[1],
                                         data |-> kept[i].source.data[1]]]
                              ELSE IF kept[i].type = "thinking"
                              THEN out.parts[i] = [text |-> kept[i].thinking]
                              ELSE out.parts[i] = [text |-> kept[i].text]

\* a message of an image without media_type followed by a Thinking block has
\* been translated to the one text part of the thinking
C22_Witness ==
    /\ Applied("transform_request")
    /\ Len(args.request.messages) = 1
    /\ args.request.messages[1].role = "assistant"
    /\ args.request.messages[1].content.kind = "Blocks"
    /\ Len(args.request.messages[1].content.blocks) = 2
    /\ args.request.messages[1].content.blocks[1].type = "image"
    /\ args.request.messages[1].content.blocks[1].source.media_type = None
    /\ args.request.messages[1].content.blocks[1].source.data # None
    /\ args.request.messages[1].content.blocks[2].type = "thinking"
    /\ ret.value.contents = <<[role |-> "model", parts |-> <<[text |-> <<"t">>]>>]>>

\* C23: topK is 40 whatever the request's top_k, and maxOutputTokens is the
\* number max_tokens for every u32, never negative or wrapped.
C23_GenerationConfig ==
    Applied("transform_request")
    => LET config == Unwrap(ret.value.generation_config)
           max_output_tokens == Unwrap(config.max_output_tokens)
       IN  /\ config.top_k = Some(40)
           /\ max_output_tokens >= 0
           /\ max_output_tokens \div 65536 = args.request.max_tokens[1]
           /\ max_output_tokens % 65536 = args.request.max_tokens[2]

\* the count of the usage metadata under this name, 0 when it is absent
UsageCount(field) ==
    IF args.response.usage_metadata = None THEN 0
    ELSE IF args.response.usage_metadata[1][field] = None THEN 0
    ELSE args.response.usage_metadata[1][field][1]

\* the response is translated from its first candidate: one Text block per
\* part (the text of a text part, empty for any other), role "assistant",
\* type "message", stop_reason by finish reason; none gives ApiError 500
FirstCandidate ==
    IF Len(args.response.candidates) = 0
    THEN ret.tag = "ApiError" /\ ret.status = 500
    ELSE LET candidate == args.response.candidates[1] IN
         /\ ret.tag = "Ok"
         /\ ret.value.role = "assistant"
         /\ ret.value.type = "message"
         /\ Len(ret.value.content) = Len(candidate.content.parts)
         /\ \A i \in 1..Len(candidate.content.parts) :
              /\ ret.value.content[i].type = "text"
              /\ ret.value.content[i].text =
                   IF "text" \in DOMAIN candidate.content.parts[i]
                   THEN candidate.content.parts[i].text ELSE <<>>
         /\ ret.value.stop_reason =
              IF candidate.finish_reason = Some("STOP") THEN Some("end_turn")
              ELSE IF candidate.finish_reason = Some("MAX_TOKENS") THEN Some("max_tokens")
              ELSE None

\* the u32 counter is the number n
IsNumber(counter, n) ==
    n >= 0 /\ counter = <<n \div 65536, n % 65536>>

\* C24 as stated: the translation is that of the first candidate and the
\* usage counters are promptTokenCount and candidatesTokenCount, 0 when
\* absent.
C24_Original ==
    Applied("transform_response")
    => /\ FirstCandidate
       /\ ret.tag = "Ok" =>
            /\ IsNumber(ret.value.usage.input_tokens, UsageCount("prompt_token_count"))
            /\ IsNumber(ret.value.usage.output_tokens, UsageCount("candidates_token_count"))

\* C24: the translation is that of the first candidate; each usage counter
\* is its count (promptTokenCount, candidatesTokenCount) when that is absent
\* (0) or not negative, and the count plus 2^32 when it is negative.
C24_TransformResponse ==
    Applied("transform_response")
    => /\ FirstCandidate
       /\ ret.tag = "Ok" =>
            \A pair \in {<<ret.value.usage.input_tokens, UsageCount("prompt_token_count")>>,
                         <<ret.value.usage.output_tokens,
                           UsageCount("candidates_token_count")>>} :
                IF pair[2] >= 0 THEN IsNumber(pair[1], pair[2])
                ELSE /\ pair[1][1] >= 32768
                     /\ (pair[1][1] - 65536) * 65536 + pair[1][2] = pair[2]

\* a response of two candidates that differ, the first of a text and a
\* non-text part with finish reason STOP and counts 7 and absent, has been
\* translated
C24_Witness ==
    /\ Applied("transform_response")
    /\ Len(args.response.candidates) = 2
    /\ args.response.candidates[1].finish_reason = Some("STOP")
    /\ Len(args.response.candidates[1].content.parts) = 2
    /\ "text" \in DOMAIN args.response.candidates[1].content.parts[1]
    /\ "inline_data" \in DOMAIN args.response.candidates[1].content.parts[2]
    /\ UsageCount("prompt_token_count") = 7
    /\ args.response.usage_metadata[1].candidates_token_count = None
    /\ ret.value.content = <<BlockText(<<"a">>), BlockText(<<>>)>>
    /\ ret.value.stop_reason = Some("end_turn")
    /\ ret.value.usage = [input_tokens |-> <<0, 7>>, output_tokens |-> <<0, 0>>]

(***************************************************************************)
(* Claims about model routing and the Gemini sub-modes, checked under      *)
(* SpecReg.                                                                *)
(***************************************************************************)
\* C26: the model_to_provider index of a registry is always empty:
\* list_models() returns the empty list whatever the providers' model lists
\* are, and get_provider_for_model is always answered by the scan over the
\* providers, never by the index.
C26_IndexAlwaysEmpty ==
    registry.status = "ok" =>
        /\ registry.model_to_provider = EmptyMap
        /\ lookup.op = "list_models" => lookup.result = <<>>
        /\ lookup.op = "get_provider_for_model" =>
               /\ lookup.model \notin DOMAIN registry.model_to_provider
               /\ lookup.result = ScanProviders(registry, registry.order, lookup.model)

\* list_models was called on a registry that from_configs filled with a
\* provider whose model list is not empty
C26_Witness ==
    /\ FromConfigsDone /\ registry.status = "ok"
    /\ \E n \in DOMAIN registry.providers : Len(registry.providers[n].models) > 0
    /\ lookup.op = "list_models"
    /\ lookup.result = <<>>

\* C27: get_provider_for_model is deterministic: with several providers
\* supporting the model, the provider returned is the first supporting one
\* in configuration order, whichever way the providers map iterates.
C27_FirstInConfigOrder ==
    (/\ FromConfigsDone /\ registry.status = "ok"
     /\ lookup.op = "get_provider_for_model"
     /\ lookup.result.tag = "Ok") =>
        LET supporting == {i \in EnabledConfigs :
                              /\ LastEnabled(configs[i].name) = i
                              /\ supports_model(registry.providers[configs[i].name],
                                                lookup.model)}
            first == CHOOSE i \in supporting : \A j \in supporting : i <= j
        IN  lookup.result.value = registry.providers[configs[first].name]

\* C30: configuration errors of a Gemini provider surface at construction
\* only: on a provider of a successfully built registry send_message never
\* fails with ConfigError, and the sub-mode it uses is the one that chose
\* the default base URL.
C30_ConfigErrorsAtConstruction ==
    (FromConfigsDone /\ lookup.op = "send_message") =>
        LET provider == registry.providers[lookup.name] IN
        /\ lookup.result.tag = "Ok"
        /\ provider.base_url.mode # "given" =>
               lookup.result.value.mode = provider.base_url.mode

(***************************************************************************)
(* Claims about send_message and refresh_token, checked under Spec.        *)
(***************************************************************************)
\* the stages of send_message on the Code Assist path, in the order of the code
SendMessageStages ==
    <<"transform_request", "get_auth_header", "generateContent", "transform_response">>

\* C25: send_message goes through translate request, obtain authorization,
\* HTTP call, translate response in that order and through each at most
\* once: no generateContent request is sent before authorization succeeded,
\* at most one is sent per call, and the response is translated only after
\* a 2xx answer.
C25_StepOrder ==
    \A p \in Procs :
        call[p].op = "send_message" =>
            LET steps == call[p].steps
                done(stage) == \E i \in DOMAIN steps : steps[i] = stage
            IN  /\ Len(steps) <= Len(SendMessageStages)
                /\ steps = SubSeq(SendMessageStages, 1, Len(steps))
                /\ call[p].http <= 1
                /\ done("generateContent") <=> call[p].http = 1
                /\ done("generateContent") =>
                       IsSome(call[p].bearer) /\ call[p].rt_error = ""
                /\ done("transform_response") =>
                       /\ call[p].api.tag = "status"
                       /\ is_success(call[p].api.status)
                       /\ pc[p] = "done"

\* a send_message that refreshed its token went through all four stages
C25_Witness ==
    \E p \in Procs :
        /\ call[p].op = "send_message"
        /\ call[p].refreshes = 1
        /\ call[p].steps = SendMessageStages

\* C28: a refresh_token that fails returns an error and leaves the store
\* exactly as it was; a refresh of one provider_id, failed or not, never
\* changes the entry of another provider_id.
C28_FailedRefreshKeepsStore ==
    [][\A p \in Procs :
          (pc[p] \in {"rt_load", "rt_resp"} /\ pc'[p] \in {"sm_project", "done"}) =>
              /\ \A id \in ProviderIds \ {call[p].provider_id} : store'[id] = store[id]
              /\ call'[p].refreshed = None =>
                     /\ store' = store
                     /\ writes' = writes
                     /\ call'[p].rt_error # ""
                     /\ call'[p].result.tag \in {"Err", "AuthError"}
              /\ call'[p].refreshed # None =>
                     /\ store'[call[p].provider_id] = call'[p].refreshed
                     /\ call'[p].rt_error = ""]_vars

\* a refresh failed at the token endpoint while tokens were stored under
\* both provider ids
C28_Witness ==
    \E p \in Procs :
        /\ call[p].refreshes = 1
        /\ call[p].rt_error \in {"Failed to refresh token", "Token refresh failed",
                                  "Failed to parse token response"}
        /\ pc[p] = "done"
        /\ \A id \in ProviderIds : IsSome(store[id])

\* C29: the bearer token and the project id of a Code Assist request come
\* from the same version of the stored token, whatever happens to the store
\* between the two reads.
C29_SameTokenVersion ==
    \A p \in Procs :
        (call[p].op = "send_message" /\ call[p].http = 1) =>
            LET source == IF IsSome(call[p].refreshed) THEN call[p].refreshed
                          ELSE call[p].token
            IN  /\ call[p].bearer = Some(Unwrap(source).access_token)
                /\ call[p].project = Unwrap(source).project_id
====
